---- MODULE Spec2Model ----
(***************************************************************************)
(* Tool orchestration layer of NeuralProtocol: the tool registry and       *)
(* dispatcher (utils/tools_manager.py), the network RPC client             *)
(* (utils/mcp_see_http.py), the subprocess studio (utils/mcp_studio.py)    *)
(* and the chat front end that drives the agent                            *)
(* (backend/chat/langchain_chat.py).                                       *)
(*                                                                         *)
(* Python None is the string "None".  A source string                      *)
(* f"mcp_server:{name}" is the pair <<"mcp_server", name>>.                *)
(***************************************************************************)
EXTENDS Integers, Sequences, FiniteSets, TLC

VARIABLES
    mcp_servers,       \* MCPStudio.servers: sequence of MCPServer
    http_servers,      \* HttpMCPStudio.servers: sequence of HttpMCPServer
    mcp_tools,         \* ToolsManager.mcp_tools
    http_tools,        \* ToolsManager.http_tools
    custom_tools,      \* ToolsManager.custom_tools
    see_tools,         \* ToolsManager.see_tools
    tool_info,         \* ToolsManager.tool_info: dict name -> ToolInfo
    approval_enabled,  \* ToolsManager.approval_enabled
    agent,             \* NeuralProtocolChat.agent: the tools the agent was built with
    last_registered,   \* history: name -> source of the latest registration
    last,              \* history: what the step just taken did and returned, when
                       \* it was a tool call (execute_tool_call, process_message)
    client,            \* the operation of the network RPC client in progress or
                       \* just finished, with the requests it sent
    fleet,             \* the connections of one studio with their exit stacks
                       \* and cleanup locks, followed await by await
    tasks,             \* the coroutines running against the fleet: the
                       \* operation each is in and where it is suspended
    gate,              \* the console approval gate: where _get_user_approval
                       \* is, the inputs it has read and what it returned
    ledger             \* history: the resources acquired, released and
                       \* released again, the connections an exit callback
                       \* of which raised, the cleanup_all_servers calls that
                       \* returned, the requests and responses of the
                       \* subprocess calls, the connections whose initialize()
                       \* succeeded with no cleanup() returned since, and the
                       \* connections on which an initialize() has failed

vars == <<mcp_servers, http_servers, mcp_tools, http_tools, custom_tools,
          see_tools, tool_info, approval_enabled, agent, last_registered, last,
          client, fleet, tasks, gate, ledger>>

\* the state of the operations followed step by step
aux == <<client, fleet, tasks, gate, ledger>>

registry == <<mcp_tools, http_tools, custom_tools, see_tools, tool_info>>

-----------------------------------------------------------------------------
(* Bounds *)

\* most tools held by the four tool lists together
MaxTools == 2
\* most tool descriptions one listing returns
MaxListed == 1
\* most tools passed to one add_custom_tools / add_see_tools call
MaxBatch == 1

\* most servers added to one studio
MaxServers == 2

\* most entries of the configurations loaded into the studios
MaxEntries == 2

\* most inputs the approval gate reads in one consultation
MaxReads == 3

\* tool names the providers and the callers use
Names == {"x", "y"}

None == "None"

-----------------------------------------------------------------------------
(* Sequence helpers *)

SeqsUpTo(S, n) == UNION {[1..k -> S] : k \in 0..n}

RECURSIVE Flatten(_)
Flatten(ss) == IF ss = <<>> THEN <<>> ELSE Head(ss) \o Flatten(Tail(ss))

\* dict assignment d[k] = v
DictSet(d, k, v) == [j \in DOMAIN d \cup {k} |-> IF j = k THEN v ELSE d[j]]

-----------------------------------------------------------------------------
(* Servers *)

\* MCPServer.__init__: no session yet
MCPServer(name) == [name |-> name, session |-> FALSE]

\* HttpMCPServer.__init__: not connected, no session, no adapter client
HttpMCPServer(name, transport) ==
    [name |-> name, transport |-> transport, is_connected |-> FALSE,
     session |-> FALSE, langchain_client |-> FALSE, mcp_session_id |-> None]

\* the configuration dicts passed to MCPStudio.add_server: 'transport' and
\* 'command' are absent or given, and a given command may not be a string
StdioDescriptors ==
    [transport : {"absent", "http"}, command : {"absent", "cmd", "not_a_string"}]

\* the configuration dicts passed to HttpMCPStudio.add_server
HttpDescriptors == [transport : {"absent", "http", "sse"}, url : {"absent", "url"}]

\* ServerConfig(**config): transport defaults to "stdio", command is
\* Optional[str] with default None; validation fails on a wrong type only
ServerConfig(config) ==
    [valid |-> config.command # "not_a_string",
     transport |-> IF config.transport = "absent" THEN "stdio" ELSE config.transport,
     command |-> IF config.command = "absent" THEN None ELSE config.command]

\* HttpServerConfig(**config): transport and url are required fields
HttpServerConfig(config) ==
    [valid |-> config.transport # "absent" /\ config.url # "absent",
     transport |-> config.transport,
     url |-> config.url]

\* MCPServer.__init__ with the validated configuration kept in self.config
MCPServerFrom(name, config) ==
    [name |-> name, session |-> FALSE, config |-> config]

\* MCPServer.is_initialized
McpIsInitialized(srv) == srv.session

\* HttpMCPServer.is_initialized
HttpIsInitialized(srv) ==
    srv.is_connected /\ (srv.session \/ srv.langchain_client)

\* indices of MCPStudio.get_initialized_servers, in list order
McpInitializedServers(servers) ==
    SelectSeq([i \in 1..Len(servers) |-> i], LAMBDA i : McpIsInitialized(servers[i]))

\* indices of HttpMCPStudio.get_initialized_servers, in list order
HttpInitializedServers(servers) ==
    SelectSeq([i \in 1..Len(servers) |-> i], LAMBDA i : HttpIsInitialized(servers[i]))

\* MCPServer.cleanup; closeOk: exit_stack.aclose() returned (its error is
\* logged and the fields are left as they were)
McpCleanup(srv, closeOk) ==
    IF closeOk THEN [srv EXCEPT !.session = FALSE] ELSE srv

\* HttpMCPServer.cleanup; closeOk as above, aclose runs only with a session
HttpCleanup(srv, closeOk) ==
    IF srv.session /\ ~closeOk
    THEN srv
    ELSE [srv EXCEPT !.session = FALSE, !.langchain_client = FALSE,
                     !.is_connected = FALSE, !.mcp_session_id = None]

\* MCPServer.initialize; out = "ok", or "fail" when spawn, session open or
\* handshake raises (cleanup runs, the error is re-raised)
McpInitialize(srv, out, closeOk) ==
    IF out = "ok"
    THEN [srv |-> [srv EXCEPT !.session = TRUE], raised |-> FALSE]
    ELSE [srv |-> McpCleanup(srv, closeOk), raised |-> TRUE]

\* MCPServer.initialize of a server that keeps its configuration: a
\* transport other than stdio and a missing command raise ValueError before
\* the try block, so no cleanup runs
McpInitializeChecked(srv, out, closeOk) ==
    IF srv.config.transport # "stdio" \/ srv.config.command = None
    THEN [srv |-> srv, raised |-> TRUE]
    ELSE McpInitialize(srv, out, closeOk)

\* HttpMCPServer.initialize; sid is the mcp-session-id the accepted probe
\* carried (None when it carried none or no probe answered 200)
HttpInitialize(srv, out, sid, closeOk) ==
    IF out # "ok"
    THEN [srv |-> HttpCleanup(srv, closeOk), raised |-> TRUE]
    ELSE IF srv.transport \in {"sse", "streamable_http"}
    THEN [srv |-> [srv EXCEPT !.langchain_client = TRUE, !.is_connected = TRUE],
          raised |-> FALSE]
    ELSE [srv |-> [srv EXCEPT !.session = TRUE, !.is_connected = TRUE,
                              !.mcp_session_id =
                                  IF sid # None THEN sid ELSE srv.mcp_session_id],
          raised |-> FALSE]

\* MCPStudio.cleanup_all_servers: reversed(self.servers), errors tolerated
RECURSIVE McpCleanupFrom(_, _, _)
McpCleanupFrom(servers, i, closeOk) ==
    IF i = 0 THEN servers
    ELSE McpCleanupFrom([servers EXCEPT ![i] = McpCleanup(servers[i], closeOk[i])],
                        i - 1, closeOk)

\* HttpMCPStudio.cleanup_all_servers
RECURSIVE HttpCleanupFrom(_, _, _)
HttpCleanupFrom(servers, i, closeOk) ==
    IF i = 0 THEN servers
    ELSE HttpCleanupFrom([servers EXCEPT ![i] = HttpCleanup(servers[i], closeOk[i])],
                         i - 1, closeOk)

\* MCPStudio.initialize_all_servers: the first failure cleans up the whole
\* fleet and re-raises
RECURSIVE McpInitializeFrom(_, _, _, _)
McpInitializeFrom(servers, i, outs, closeOk) ==
    IF i > Len(servers) THEN [servers |-> servers, raised |-> FALSE]
    ELSE LET r == McpInitialize(servers[i], outs[i], closeOk[i])
             after == [servers EXCEPT ![i] = r.srv]
         IN  IF r.raised
             THEN [servers |-> McpCleanupFrom(after, Len(after), closeOk),
                   raised |-> TRUE]
             ELSE McpInitializeFrom(after, i + 1, outs, closeOk)

\* HttpMCPStudio.initialize_all_servers: a failure is logged, the loop goes on
RECURSIVE HttpInitializeFrom(_, _, _, _, _)
HttpInitializeFrom(servers, i, outs, sids, closeOk) ==
    IF i > Len(servers) THEN servers
    ELSE HttpInitializeFrom(
             [servers EXCEPT ![i] =
                 HttpInitialize(servers[i], outs[i], sids[i], closeOk[i]).srv],
             i + 1, outs, sids, closeOk)

-----------------------------------------------------------------------------
(* Tools and descriptors *)

\* how a tool object can be invoked: a langchain BaseTool (invoke, ainvoke,
\* run, arun), the HttpMCPTool closure, an object with run only, a plain
\* callable, or an object with none of these
ToolKinds == {"langchain", "http", "runner", "function", "inert"}

\* a tool description of a listing without a 'name'
NoName == "<noname>"

\* the tool objects; server is the index of the owning server, 0 for none
Tool(name, cat, kind, server) ==
    [name |-> name, cat |-> cat, kind |-> kind, server |-> server]

\* ToolInfo(name, source, category)
ToolInfo(name, source, category) ==
    [name |-> name, source |-> source, category |-> category]

\* _create_http_tool: tool_data.get('name', 'http_tool')
HttpToolName(td) == IF td = NoName THEN "http_tool" ELSE td

\* f'{server.name}_tool' for the server names of the model
ServerToolKey(srvname) ==
    CASE srvname = "h1" -> "h1_tool"
      [] srvname = "h2" -> "h2_tool"
      [] srvname = "e1" -> "e1_tool"
      [] OTHER -> "_tool"

\* _load_aiohttp_tools: tool_data.get('name', f'{server.name}_tool')
HttpInfoKey(td, srvname) == IF td = NoName THEN ServerToolKey(srvname) ELSE td

\* ToolsManager.get_all_tools
get_all_tools(mcp, http, custom, see) == mcp \o http \o custom \o see

AllTools == get_all_tools(mcp_tools, http_tools, custom_tools, see_tools)

\* a lookup that falls back to the first tool when the name is unknown
find_tool_by_name_or_first(tools, tool_name) ==
    IF \E i \in 1..Len(tools) : tools[i].name = tool_name
    THEN CHOOSE i \in 1..Len(tools) :
            /\ tools[i].name = tool_name
            /\ \A j \in 1..(i - 1) : tools[j].name # tool_name
    ELSE IF tools # <<>> THEN 1 ELSE 0

\* ToolsManager.find_tool_by_name: index of the first tool of that name in
\* get_all_tools(), 0 when there is none
find_tool_by_name(tools, tool_name) ==
    IF \E i \in 1..Len(tools) : tools[i].name = tool_name
    THEN CHOOSE i \in 1..Len(tools) :
            /\ tools[i].name = tool_name
            /\ \A j \in 1..(i - 1) : tools[j].name # tool_name
    ELSE 0

\* assignments that keep a descriptor already stored under the name
RECURSIVE StoreInfoKeepFirst(_, _)
StoreInfoKeepFirst(info, regs) ==
    IF regs = <<>> THEN info
    ELSE StoreInfoKeepFirst(
             IF Head(regs)[1] \in DOMAIN info THEN info
             ELSE DictSet(info, Head(regs)[1], Head(regs)[2]),
             Tail(regs))

\* the self.tool_info[tool_name] = ToolInfo(...) assignments of one loop, in order;
\* regs is a sequence of <<key, ToolInfo>>
RECURSIVE StoreInfo(_, _)
StoreInfo(info, regs) ==
    IF regs = <<>> THEN info
    ELSE StoreInfo(DictSet(info, Head(regs)[1], Head(regs)[2]), Tail(regs))

\* history of the same assignments: key -> source written last
RECURSIVE NoteRegistered(_, _)
NoteRegistered(h, regs) ==
    IF regs = <<>> THEN h
    ELSE NoteRegistered(DictSet(h, Head(regs)[1], Head(regs)[2].source), Tail(regs))

-----------------------------------------------------------------------------
(* Network RPC client: tool call *)

\* a response to one request: status 0 is a request that raised (no
\* response); body is what a 200 carries
Bodies == {"result_payload", "error_payload", "non_dict", "bad_json"}

HttpResponses ==
    {[status |-> 200, body |-> b] : b \in Bodies}
        \cup {[status |-> st, body |-> "none"] : st \in {0, 404, 500}}

\* len(tool_endpoints) in _call_tool_aiohttp
NumCallPaths == 3

\* the JSON-RPC fallback of _call_tool_aiohttp: result.get('result', result)
\* on a 200, ClientError("All tool call methods failed") otherwise; n is the
\* number of requests sent before it
CallToolRpc(r, n) ==
    IF r.status = 200 /\ r.body = "result_payload"
    THEN [raised |-> FALSE, value |-> "result_field", requests |-> n + 1]
    ELSE IF r.status = 200 /\ r.body = "error_payload"
    THEN [raised |-> FALSE, value |-> "body_error", requests |-> n + 1]
    ELSE [raised |-> TRUE, value |-> None, requests |-> n + 1]

\* the endpoint loop of _call_tool_aiohttp from path i on: the first 200
\* whose body parses is returned whole, anything else moves on
RECURSIVE CallToolDirect(_, _)
CallToolDirect(rs, i) ==
    IF i > NumCallPaths THEN CallToolRpc(rs[i], NumCallPaths)
    ELSE IF rs[i].status = 200 /\ rs[i].body # "bad_json"
    THEN [raised |-> FALSE,
          value |-> CASE rs[i].body = "result_payload" -> "body_result"
                      [] rs[i].body = "error_payload" -> "body_error"
                      [] OTHER -> "body_non_dict",
          requests |-> i]
    ELSE CallToolDirect(rs, i + 1)

\* what the direct paths and the JSON-RPC fallback answer to one call
CallResponses == [1..(NumCallPaths + 1) -> HttpResponses]

\* every way the request cascade of _call_tool_aiohttp can end
CascadeOutcomes == {CallToolDirect(rs, 1) : rs \in CallResponses}

\* HttpMCPServer._call_tool_aiohttp; net is how the cascade ends for the
\* answers the server gives
CallToolAiohttp(srv, net) ==
    IF ~srv.session
    THEN [raised |-> TRUE, value |-> None, requests |-> 0]
    ELSE net

\* HttpMCPServer._call_tool_langchain: the adapter's tool returns or raises
CallToolLangchain(adapter) ==
    IF adapter = "ok"
    THEN [raised |-> FALSE, value |-> "tool_value", requests |-> 0]
    ELSE [raised |-> TRUE, value |-> None, requests |-> 0]

\* HttpMCPServer.call_tool
call_tool(srv, net, adapter) ==
    IF ~srv.is_connected
    THEN [raised |-> TRUE, value |-> None, requests |-> 0]
    ELSE IF srv.langchain_client THEN CallToolLangchain(adapter)
    ELSE CallToolAiohttp(srv, net)

\* str(result) of a value call_tool returned
StrOf(v) ==
    CASE v = "result_field" -> "str(result_field)"
      [] v = "body_result" -> "str(body_result)"
      [] v = "body_error" -> "str(body_error)"
      [] v = "body_non_dict" -> "str(body_non_dict)"
      [] OTHER -> "str(tool_value)"

\* HttpMCPTool._arun: the string of the result, or the error as a string
HttpMCPTool_arun(srv, net, adapter) ==
    LET r == call_tool(srv, net, adapter)
    IN  [raised |-> FALSE,
         value |-> IF r.raised THEN "Error executing HTTP tool" ELSE StrOf(r.value),
         transport |-> r]

-----------------------------------------------------------------------------
(* Tool registry and dispatcher *)

\* no operation of the network RPC client is followed
NoClientOp == [op |-> "none", pc |-> "done"]

\* the coroutines that can run against one fleet
Tasks == {"t1", "t2"}
\* a coroutine that is not inside any operation
Idle == [op |-> "idle", srv |-> 0, pc |-> "done", err |-> FALSE,
         trail |-> <<>>, after |-> "return", failed |-> {}, visits |-> <<>>]
NoTasks == [t \in Tasks |-> Idle]
\* a single coroutine: the other one never runs
OneTask == [t \in Tasks |-> IF t = "t1" THEN Idle ELSE [Idle EXCEPT !.pc = "absent"]]
\* nothing acquired, released or sent yet
EmptyLedger == [acquired |-> {}, released |-> {}, again |-> {}, failed |-> {},
                wire |-> <<>>, alls |-> 0, ready |-> {}, broken |-> {}]

\* ToolResult(tool_name, success, result, error)
ToolResult(tool_name, success, result, error) ==
    [tool_name |-> tool_name, success |-> success, result |-> result,
     error |-> error]

NoResult == ToolResult(None, FALSE, None, None)

\* no HttpMCPServer.call_tool was made
NoCall == [called |-> FALSE, raised |-> FALSE, value |-> None, requests |-> 0]

\* one invocation of a tool object (ainvoke / run / call); out is what a tool
\* other than an HttpMCPTool does: "ok" or "raise"
InvokeTool(tool, out, net, adapter) ==
    IF tool.kind = "http"
    THEN LET a == HttpMCPTool_arun(http_servers[tool.server], net, adapter)
         IN  [raised |-> a.raised, value |-> a.value,
              transport |-> [called |-> TRUE, raised |-> a.transport.raised,
                             value |-> a.transport.value,
                             requests |-> a.transport.requests]]
    ELSE IF out = "ok"
    THEN [raised |-> FALSE, value |-> "tool_value", transport |-> NoCall]
    ELSE [raised |-> TRUE, value |-> None, transport |-> NoCall]

\* the hasattr / callable chain of execute_tool_call
IsExecutable(tool) == tool.kind \in {"langchain", "http", "runner", "function"}

\* what one call did: the gate consultations, the tools invoked, the
\* transport call, whether the underlying tool raised, whether the operation
\* raised to its caller, and the ToolResult returned
Outcome(op, name, approval, gate_calls, decision, invoked, transport, tool_raised, raised, result) ==
    [op |-> op, name |-> name, approval |-> approval, gate_calls |-> gate_calls,
     decision |-> decision, invoked |-> invoked, transport |-> transport,
     tool_raised |-> tool_raised, raised |-> raised, result |-> result]

NoOutcome ==
    Outcome("none", None, FALSE, 0, FALSE, <<>>, NoCall, FALSE, FALSE, NoResult)

\* what the console gives to one input() call: a line, Ctrl-C
\* (KeyboardInterrupt) or a failed read such as the end of the input (EOFError)
ConsoleLines == {"1", "2", " 1 ", "2 ", "", "12", "yes"}
ConsoleEvents == ConsoleLines \cup {"<KeyboardInterrupt>", "<EOFError>"}

\* str.strip on the lines of the console
Strip(line) == CASE line = " 1 " -> "1" [] line = "2 " -> "2" [] OTHER -> line

\* the gate before _get_user_approval was ever called
NoGate == [pc |-> "idle", inputs |-> <<>>, decision |-> "none"]

\* a turn of the loop that compares the line as it was typed
ReadChoiceAsTyped(event) ==
    IF event \notin ConsoleLines THEN "reject"
    ELSE IF event = "1" THEN "approve"
    ELSE IF event = "2" THEN "reject"
    ELSE "again"

\* one turn of the loop of _get_user_approval: the stripped line is compared
\* with "1" and "2"; KeyboardInterrupt and any other exception return False
ReadChoice(event) ==
    IF event \notin ConsoleLines THEN "reject"
    ELSE IF Strip(event) = "1" THEN "approve"
    ELSE IF Strip(event) = "2" THEN "reject"
    ELSE "again"

\* _get_user_approval is entered: the prompt is shown
get_user_approval_begin ==
    /\ gate.pc # "prompt"
    /\ gate' = [pc |-> "prompt", inputs |-> <<>>, decision |-> "none"]
    /\ UNCHANGED <<mcp_servers, http_servers, registry, approval_enabled, agent,
                   last_registered, last, client, fleet, tasks, ledger>>

\* _get_user_approval reads one input and returns or prompts again
get_user_approval_read(event) ==
    LET r == ReadChoice(event)
    IN  /\ gate.pc = "prompt"
        /\ Len(gate.inputs) < MaxReads
        /\ gate' = [pc |-> IF r = "again" THEN "prompt" ELSE "done",
                    inputs |-> Append(gate.inputs, event),
                    decision |-> IF r = "again" THEN "none" ELSE r]
        /\ UNCHANGED <<mcp_servers, http_servers, registry, approval_enabled, agent,
                       last_registered, last, client, fleet, tasks, ledger>>

\* a gate that is consulted whatever the mode is
ApprovalRequiredAlways == TRUE

\* if self.approval_enabled: the call must pass the gate
ApprovalRequired == approval_enabled

\* a rejection that does not stop the call
DisapprovedNever(decision) == FALSE

\* if not self._get_user_approval(): the gate was asked and said no
Disapproved(decision) == ApprovalRequired /\ ~decision

\* the try block of ToolsManager.execute_tool_call; raised means an exception
\* left the block
ExecuteTry(tool_name, decision, out, net, adapter) ==
    LET i == find_tool_by_name(AllTools, tool_name)
        tool == AllTools[i]
        R(gate_calls, dec, invoked, transport, tool_raised, raised, result) ==
            Outcome("execute_tool_call", tool_name, approval_enabled, gate_calls,
                    dec, invoked, transport, tool_raised, raised, result)
    IN  IF i = 0
        THEN R(0, FALSE, <<>>, NoCall, FALSE, FALSE,
               ToolResult(tool_name, FALSE, None, "Tool not found"))
        ELSE IF ApprovalRequired /\ tool_name \notin DOMAIN tool_info
        \* _display_tool_approval_request reads tool_info.description of None
        THEN R(0, FALSE, <<>>, NoCall, FALSE, TRUE, NoResult)
        ELSE IF Disapproved(decision)
        THEN R(1, FALSE, <<>>, NoCall, FALSE, FALSE,
               ToolResult(tool_name, FALSE, None,
                          "Tool execution disapproved by user"))
        ELSE LET gate_calls == IF ApprovalRequired THEN 1 ELSE 0
                 dec == ApprovalRequired /\ decision
             IN  IF ~IsExecutable(tool)
                 THEN R(gate_calls, dec, <<>>, NoCall, FALSE, FALSE,
                        ToolResult(tool_name, FALSE, None, "Tool is not executable"))
                 ELSE LET r == InvokeTool(tool, out, net, adapter)
                      IN  IF r.raised
                          THEN R(gate_calls, dec, <<tool>>, r.transport, TRUE, TRUE,
                                 NoResult)
                          ELSE R(gate_calls, dec, <<tool>>, r.transport, FALSE, FALSE,
                                 ToolResult(tool_name, TRUE, r.value, None))

\* an except handler that reports the error in a result flagged successful
execute_tool_call_flagged(tool_name, decision, out, net, adapter) ==
    LET t == ExecuteTry(tool_name, decision, out, net, adapter)
    IN  IF t.raised
        THEN [t EXCEPT !.raised = FALSE,
                       !.result = ToolResult(tool_name, TRUE, None,
                                             "Error executing tool")]
        ELSE t

\* ToolsManager.execute_tool_call: except Exception turns whatever left the
\* try block into a failed ToolResult
execute_tool_call(tool_name, decision, out, net, adapter) ==
    LET t == ExecuteTry(tool_name, decision, out, net, adapter)
    IN  IF t.raised
        THEN [t EXCEPT !.raised = FALSE,
                       !.result = ToolResult(tool_name, FALSE, None,
                                             "Error executing tool")]
        ELSE t

\* what load_mcp_tools(server.session) of the adapter gives for one server:
\* the names of its tools, or an exception (_load_tools_from_server returns [])
Listings(S) ==
    {[raised |-> TRUE, names |-> <<>>]}
        \cup {[raised |-> FALSE, names |-> ns] : ns \in SeqsUpTo(S, MaxListed)}

\* _load_tools_from_server for server i
LoadToolsFromServer(i, listing) ==
    IF listing.raised THEN <<>>
    ELSE [k \in 1..Len(listing.names) |-> Tool(listing.names[k], "mcp", "langchain", i)]

\* the tools one HTTP server contributes: _load_langchain_tools for sse and
\* streamable_http, _load_aiohttp_tools (with _create_http_tool) otherwise
LoadHttpToolsFromServer(srv, i, listing) ==
    IF listing.raised THEN <<>>
    ELSE IF srv.transport \in {"sse", "streamable_http"}
    THEN [k \in 1..Len(listing.names) |-> Tool(listing.names[k], "http", "langchain", i)]
    ELSE [k \in 1..Len(listing.names) |->
            Tool(HttpToolName(listing.names[k]), "http", "http", i)]

\* the tool_info entries written for one MCP server's tools
McpRegs(srv, tools) ==
    [k \in 1..Len(tools) |->
        <<tools[k].name, ToolInfo(tools[k].name, <<"mcp_server", srv.name>>, "mcp")>>]

\* the tool_info entries written for one HTTP server's listing
HttpRegs(srv, listing) ==
    IF listing.raised THEN <<>>
    ELSE IF srv.transport \in {"sse", "streamable_http"}
    THEN [k \in 1..Len(listing.names) |->
            <<listing.names[k],
              ToolInfo(listing.names[k], <<"http_server", srv.name>>, "http")>>]
    ELSE [k \in 1..Len(listing.names) |->
            <<HttpInfoKey(listing.names[k], srv.name),
              ToolInfo(HttpInfoKey(listing.names[k], srv.name),
                       <<"http_server", srv.name>>, "http")>>]

\* a load whose loop ends at the first server whose listing fails
load_mcp_tools_until_failure(listings) ==
    LET ready == McpInitializedServers(mcp_servers)
        per == [k \in 1..Len(ready) |->
                  IF \E j \in 1..k : listings[ready[j]].raised THEN <<>>
                  ELSE LoadToolsFromServer(ready[k], listings[ready[k]])]
        regs == [k \in 1..Len(ready) |-> McpRegs(mcp_servers[ready[k]], per[k])]
    IN  /\ Len(Flatten(per)) + Len(http_tools) + Len(custom_tools) + Len(see_tools)
              <= MaxTools
        /\ mcp_tools' = Flatten(per)
        /\ tool_info' = StoreInfo(tool_info, Flatten(regs))
        /\ last_registered' = NoteRegistered(last_registered, Flatten(regs))
        /\ last' = NoOutcome
        /\ UNCHANGED <<aux, mcp_servers, http_servers, http_tools, custom_tools, see_tools,
                       approval_enabled, agent>>

\* ToolsManager.load_mcp_tools
load_mcp_tools(listings) ==
    LET ready == McpInitializedServers(mcp_servers)
        per == [k \in 1..Len(ready) |-> LoadToolsFromServer(ready[k], listings[ready[k]])]
        regs == [k \in 1..Len(ready) |-> McpRegs(mcp_servers[ready[k]], per[k])]
    IN  /\ Len(Flatten(per)) + Len(http_tools) + Len(custom_tools) + Len(see_tools)
              <= MaxTools
        /\ mcp_tools' = Flatten(per)
        /\ tool_info' = StoreInfo(tool_info, Flatten(regs))
        /\ last_registered' = NoteRegistered(last_registered, Flatten(regs))
        /\ last' = NoOutcome
        /\ UNCHANGED <<aux, mcp_servers, http_servers, http_tools, custom_tools, see_tools,
                       approval_enabled, agent>>

\* ToolsManager.load_http_tools
load_http_tools(listings) ==
    LET ready == HttpInitializedServers(http_servers)
        per == [k \in 1..Len(ready) |->
                  LoadHttpToolsFromServer(http_servers[ready[k]], ready[k],
                                          listings[ready[k]])]
        regs == [k \in 1..Len(ready) |->
                  HttpRegs(http_servers[ready[k]], listings[ready[k]])]
    IN  /\ Len(mcp_tools) + Len(Flatten(per)) + Len(custom_tools) + Len(see_tools)
              <= MaxTools
        /\ http_tools' = Flatten(per)
        /\ tool_info' = StoreInfo(tool_info, Flatten(regs))
        /\ last_registered' = NoteRegistered(last_registered, Flatten(regs))
        /\ last' = NoOutcome
        /\ UNCHANGED <<aux, mcp_servers, http_servers, mcp_tools, custom_tools, see_tools,
                       approval_enabled, agent>>

\* the tool_info entries add_custom_tools / add_see_tools write
LocalRegs(tools, source) ==
    [k \in 1..Len(tools) |->
        <<tools[k].name, ToolInfo(tools[k].name, <<source>>, source)>>]

\* ToolsManager.add_custom_tools
add_custom_tools(tools) ==
    /\ Len(AllTools) + Len(tools) <= MaxTools
    /\ custom_tools' = custom_tools \o tools
    /\ tool_info' = StoreInfo(tool_info, LocalRegs(tools, "custom"))
    /\ last_registered' = NoteRegistered(last_registered, LocalRegs(tools, "custom"))
    /\ last' = NoOutcome
    /\ UNCHANGED <<aux, mcp_servers, http_servers, mcp_tools, http_tools, see_tools,
                   approval_enabled, agent>>

\* ToolsManager.add_see_tools
add_see_tools(tools) ==
    /\ Len(AllTools) + Len(tools) <= MaxTools
    /\ see_tools' = see_tools \o tools
    /\ tool_info' = StoreInfo(tool_info, LocalRegs(tools, "see"))
    /\ last_registered' = NoteRegistered(last_registered, LocalRegs(tools, "see"))
    /\ last' = NoOutcome
    /\ UNCHANGED <<aux, mcp_servers, http_servers, mcp_tools, http_tools, custom_tools,
                   approval_enabled, agent>>

\* ToolsManager.set_approval_mode
set_approval_mode(enabled) ==
    /\ approval_enabled' = enabled
    /\ last' = NoOutcome
    /\ UNCHANGED <<aux, mcp_servers, http_servers, registry, agent, last_registered>>

\* the by_server dict of get_tools_summary for the sources that start with
\* prefix: server name -> the keys of tool_info whose source is that server
BySummaryServer(info, prefix) ==
    [srv \in {info[k].source[2] : k \in {j \in DOMAIN info : info[j].source[1] = prefix}}
        |-> {k \in DOMAIN info : info[k].source = <<prefix, srv>>}]

\* the dict ToolsManager.get_tools_summary returns: total_tools and
\* tool_names are taken from tool_info, the subprocess and network totals
\* from the tool lists, the custom and SEE totals from the sources in
\* tool_info
ToolsSummary ==
    [total_tools |-> Cardinality(DOMAIN tool_info),
     mcp_total |-> Len(mcp_tools),
     mcp_by_server |-> BySummaryServer(tool_info, "mcp_server"),
     http_total |-> Len(http_tools),
     http_by_server |-> BySummaryServer(tool_info, "http_server"),
     custom_total |-> Cardinality({k \in DOMAIN tool_info : tool_info[k].source = <<"custom">>}),
     see_total |-> Cardinality({k \in DOMAIN tool_info : tool_info[k].source = <<"see">>}),
     tool_names |-> DOMAIN tool_info]

\* ToolsManager.get_tools_summary
get_tools_summary ==
    /\ last' = [NoOutcome EXCEPT !.op = "get_tools_summary", !.result = ToolsSummary]
    /\ UNCHANGED <<aux, mcp_servers, http_servers, registry, approval_enabled, agent,
                   last_registered>>

\* the names a caller asks for: the providers' names, the default name of a
\* nameless HTTP tool and the key of its descriptor
CallNames == Names \cup {"http_tool", "h1_tool"}

\* a call after which a connection whose transport raised is marked as not
\* connected
ExecuteInvalidates(tool_name, decision, out, net, adapter) ==
    LET r == execute_tool_call(tool_name, decision, out, net, adapter)
    IN  /\ last' = r
        /\ http_servers' =
             IF r.transport.called /\ r.transport.raised
             THEN [i \in 1..Len(http_servers) |->
                      [http_servers[i] EXCEPT !.is_connected = FALSE]]
             ELSE http_servers
        /\ UNCHANGED <<aux, mcp_servers, registry, approval_enabled, agent,
                       last_registered>>

\* a call of ToolsManager.execute_tool_call
Execute(tool_name, decision, out, net, adapter) ==
    /\ last' = execute_tool_call(tool_name, decision, out, net, adapter)
    /\ UNCHANGED <<aux, mcp_servers, http_servers, registry, approval_enabled, agent,
                   last_registered>>

-----------------------------------------------------------------------------
(* Studios *)

\* names given to the servers added, by position in the studio
StdioNames == <<"s1", "s2", "s3">>
HttpNames == <<"h1", "h2", "h3">>

\* the outcome of a studio operation on a descriptor
StudioOutcome(op, config, raised) ==
    [NoOutcome EXCEPT !.op = op, !.name = config, !.raised = raised]

\* MCPStudio.add_server: the server is appended unless MCPServer.__init__
\* raises ValidationError, which is re-raised
add_server(config) ==
    LET v == ServerConfig(config)
        name == StdioNames[Len(mcp_servers) + 1]
    IN  /\ Len(mcp_servers) < MaxServers
        /\ mcp_servers' = IF v.valid
                          THEN Append(mcp_servers, MCPServerFrom(name, v))
                          ELSE mcp_servers
        /\ last' = StudioOutcome("add_server", config, ~v.valid)
        /\ UNCHANGED <<aux, http_servers, registry, approval_enabled, agent,
                       last_registered>>

\* HttpMCPStudio.add_server
http_add_server(config) ==
    LET v == HttpServerConfig(config)
        name == HttpNames[Len(http_servers) + 1]
    IN  /\ Len(http_servers) < MaxServers
        /\ http_servers' = IF v.valid
                           THEN Append(http_servers, HttpMCPServer(name, v.transport))
                           ELSE http_servers
        /\ last' = StudioOutcome("http_add_server", config, ~v.valid)
        /\ UNCHANGED <<aux, mcp_servers, registry, approval_enabled, agent,
                       last_registered>>

\* the entries of the 'mcpServers' mapping of a configuration file: any
\* transport, written in lower or in upper case, a command that is a string
\* or is not, with or without a url
ConfigEntries ==
    [transport : {"absent", "stdio", "http", "HTTP", "sse"},
     command : {"cmd", "not_a_string"},
     url : {"absent", "url"}]

\* the keys of the mapping, in the order of its items()
ConfigKeys == <<"k1", "k2", "k3", "k4">>

\* str.lower on the transports of the entries
Lower(t) == CASE t = "HTTP" -> "http" [] t = "STDIO" -> "stdio" [] OTHER -> t

\* the transports of the network studio
NetworkTransports == {"http", "sse", "streamable_http"}

\* MCPStudio.load_servers_from_config for one entry: ServerConfig(**srv_config)
\* validates and server_cfg.transport == "stdio" selects
McpTakes(entry) ==
    LET v == ServerConfig(entry) IN v.valid /\ v.transport = "stdio"

\* a selection by the transport as it is written
HttpTakesAsWritten(entry) ==
    entry.transport \in NetworkTransports

\* HttpMCPStudio.load_servers_from_config for one entry:
\* srv_config.get("transport", "").lower() in ["http", "sse", "streamable_http"]
HttpTakes(entry) ==
    Lower(IF entry.transport = "absent" THEN "" ELSE entry.transport) \in NetworkTransports

\* MCPStudio.load_servers_from_config: the entries are visited in order and a
\* ValidationError skips the entry
mcp_load_servers_from_config(servers, config) ==
    LET taken == SelectSeq([i \in 1..Len(config) |-> i], LAMBDA i : McpTakes(config[i]))
    IN  servers \o [k \in 1..Len(taken) |->
                        MCPServerFrom(ConfigKeys[taken[k]], ServerConfig(config[taken[k]]))]

\* HttpMCPStudio.load_servers_from_config: add_server re-raises the
\* ValidationError of HttpMCPServer.__init__, which the loop catches and logs
http_load_servers_from_config(servers, config) ==
    LET taken == SelectSeq([i \in 1..Len(config) |-> i],
                           LAMBDA i : HttpTakes(config[i]) /\ HttpServerConfig(config[i]).valid)
    IN  servers \o [k \in 1..Len(taken) |->
                        HttpMCPServer(ConfigKeys[taken[k]], config[taken[k]].transport)]

\* one configuration loaded into both studios, as initialize_mcp_servers
\* does before it initializes them; the exploration is capped by the entries
\* of two loads in a row and by the servers the studios hold
load_servers_from_config(config) ==
    /\ Len(mcp_servers) + Len(http_servers) + Len(config) <= MaxEntries
    /\ last.op = "load_servers_from_config" => Len(last.name) + Len(config) <= MaxEntries
    /\ mcp_servers' = mcp_load_servers_from_config(mcp_servers, config)
    /\ http_servers' = http_load_servers_from_config(http_servers, config)
    /\ last' = StudioOutcome("load_servers_from_config", config, FALSE)
    /\ UNCHANGED <<aux, registry, approval_enabled, agent, last_registered>>

\* MCPServer.initialize of the i-th server of the studio
McpInitializeOne(i, out, closeOk) ==
    LET r == McpInitializeChecked(mcp_servers[i], out, closeOk)
    IN  /\ mcp_servers' = [mcp_servers EXCEPT ![i] = r.srv]
        /\ last' = StudioOutcome("initialize", mcp_servers[i].config, r.raised)
        /\ UNCHANGED <<aux, http_servers, registry, approval_enabled, agent,
                       last_registered>>

\* HttpMCPServer.initialize of the i-th server of the studio
HttpInitializeOne(i, out, closeOk) ==
    LET r == HttpInitialize(http_servers[i], out, None, closeOk)
    IN  /\ http_servers' = [http_servers EXCEPT ![i] = r.srv]
        /\ last' = StudioOutcome("http_initialize", http_servers[i].transport, r.raised)
        /\ UNCHANGED <<aux, mcp_servers, registry, approval_enabled, agent,
                       last_registered>>

\* MCPStudio.initialize_all_servers
McpInitializeAll(outs, closeOk) ==
    /\ mcp_servers' = McpInitializeFrom(mcp_servers, 1, outs, closeOk).servers
    /\ last' = NoOutcome
    /\ UNCHANGED <<aux, http_servers, registry, approval_enabled, agent, last_registered>>

\* MCPStudio.cleanup_all_servers
McpCleanupAll(closeOk) ==
    /\ mcp_servers' = McpCleanupFrom(mcp_servers, Len(mcp_servers), closeOk)
    /\ last' = NoOutcome
    /\ UNCHANGED <<aux, http_servers, registry, approval_enabled, agent, last_registered>>

\* HttpMCPStudio.initialize_all_servers
HttpInitializeAll(outs, sids, closeOk) ==
    /\ http_servers' = HttpInitializeFrom(http_servers, 1, outs, sids, closeOk)
    /\ last' = NoOutcome
    /\ UNCHANGED <<aux, mcp_servers, registry, approval_enabled, agent, last_registered>>

\* HttpMCPStudio.cleanup_all_servers
HttpCleanupAll(closeOk) ==
    /\ http_servers' = HttpCleanupFrom(http_servers, Len(http_servers), closeOk)
    /\ last' = NoOutcome
    /\ UNCHANGED <<aux, mcp_servers, registry, approval_enabled, agent, last_registered>>

-----------------------------------------------------------------------------
(* Chat front end *)

\* no agent has been created
NoAgent == [created |-> FALSE, tools |-> <<>>]

\* NeuralProtocolChat.create_agent / refresh_agent: the agent is built with
\* the tools the registry holds now
create_agent ==
    /\ agent' = [created |-> TRUE, tools |-> AllTools]
    /\ last' = NoOutcome
    /\ UNCHANGED <<aux, mcp_servers, http_servers, registry, approval_enabled,
                   last_registered>>

\* NeuralProtocolChat.process_message: with or without approval mode the
\* agent is run as it is (_process_with_approval ends in agent.ainvoke), and
\* the agent invokes the tools it chooses itself; calls are the positions of
\* the tools it invokes, in order
process_message(calls, out, net, adapter) ==
    /\ last' =
         IF ~agent.created
         THEN Outcome("process_message", None, approval_enabled, 0, FALSE, <<>>,
                      NoCall, FALSE, FALSE, NoResult)
         ELSE LET invoked == [k \in 1..Len(calls) |-> agent.tools[calls[k]]]
                  rr == [k \in 1..Len(calls) |-> InvokeTool(invoked[k], out, net, adapter)]
              IN  Outcome("process_message", None, approval_enabled, 0, FALSE, invoked,
                          IF calls = <<>> THEN NoCall ELSE rr[Len(calls)].transport,
                          \E k \in 1..Len(calls) : rr[k].raised, FALSE, NoResult)
    /\ UNCHANGED <<aux, mcp_servers, http_servers, registry, approval_enabled, agent,
                   last_registered>>

-----------------------------------------------------------------------------
(* Network RPC client, request by request *)

\* health_endpoints, tool_endpoints of _list_tools_aiohttp and of
\* _call_tool_aiohttp ({name} is the tool name), and self.base_url
ProbePaths == <<"/", "/health", "/status">>
ListPaths == <<"/tools", "/api/tools", "/mcp/tools">>
CallPaths == <<"/tools/{name}", "/api/tools/{name}", "/mcp/tools/{name}">>
BaseUrl == "<base_url>"

\* the value of an mcp-session-id header a server hands out
SessionIds == {"sid1"}

\* the JSON bodies of a 200 to a listing request: {tools: [...]}, [...],
\* {result: {tools: [...]}}, a body that is no JSON, {tools: null} and
\* {result: {tools: null}}
ListBodies ==
    {"envelope", "bare_list", "rpc_result", "bad_json", "envelope_null", "rpc_null"}

\* the answers to one request: status 0 is a request that raised; a response
\* may carry an mcp-session-id header
Answers(bodies) ==
    {[status |-> 0, body |-> "none", sid |-> None]}
        \cup {[status |-> st, body |-> "none", sid |-> h] :
                  st \in {404, 500}, h \in SessionIds \cup {None}}
        \cup {[status |-> 200, body |-> b, sid |-> h] :
                  b \in bodies, h \in SessionIds \cup {None}}

\* one request of the client and the answer to it; header is the
\* mcp-session-id header sent (None: no such header), rpc the JSON-RPC method
Exchange(method, path, rpc, header, r) ==
    [method |-> method, path |-> path, rpc |-> rpc, header |-> header,
     status |-> r.status, body |-> r.body, sid |-> r.sid]

\* a value an operation returns: the list (or the thing that is no list, or
\* the body, or its result member) carried by answer number from; from 0 is
\* a value the client made itself
Value(kind, from) == [kind |-> kind, from |-> from]
EmptyList == Value("list", 0)
NoValue == Value("none", 0)

\* an operation of the client on server srv
ClientOp(op, srv, pc, wire, raised, value) ==
    [op |-> op, srv |-> srv, pc |-> pc, wire |-> wire, raised |-> raised,
     value |-> value]

\* the request number n of an operation on a plain-http server
ClientRequest(op, srv, n, r) ==
    LET header == IF srv.mcp_session_id # None THEN srv.mcp_session_id ELSE None
    IN  CASE op = "initialize" ->
                Exchange("GET", IF n <= Len(ProbePaths) THEN ProbePaths[n] ELSE BaseUrl,
                         None, None, r)
          [] op = "list_tools" ->
                IF n <= Len(ListPaths)
                THEN Exchange("GET", ListPaths[n], None, header, r)
                ELSE Exchange("POST", BaseUrl, "tools/list", header, r)
          [] OTHER ->
                IF n <= Len(CallPaths)
                THEN Exchange("POST", CallPaths[n], None, header, r)
                ELSE Exchange("POST", BaseUrl, "tools/call", header, r)

\* a probe of _test_connection is accepted on a response with status 200
ProbeAcceptsOnly200(r) == r.status = 200

\* a probe of _test_connection is accepted: status 200, or any other status
\* below 500
ProbeAccepts(r) == r.status # 0 /\ (r.status = 200 \/ r.status < 500)

\* _test_connection after answer n: "return" or "next"; the GET of the base
\* URL ends it whatever the answer is
ProbeStep(n, r) ==
    IF n > Len(ProbePaths) \/ ProbeAccepts(r) THEN "return" ELSE "next"

\* the mcp-session-id _test_connection captures from answer n
ProbeCaptures(n, r) ==
    IF n <= Len(ProbePaths) /\ r.status = 200 THEN r.sid ELSE None

\* a direct listing path that moves on after a 200 whose body is neither an
\* envelope nor a list
ListDirectStepSkipsUnknown(n, r) ==
    IF r.status = 200 /\ r.body \in {"envelope", "envelope_null", "bare_list"}
    THEN [act |-> "return",
          value |-> IF r.body = "envelope_null" THEN Value("not_list", n)
                    ELSE Value("list", n)]
    ELSE [act |-> "next", value |-> NoValue]

\* a direct listing path that accepts a JSON-RPC result body and returns its
\* result.tools
ListDirectStepUnwrapsResult(n, r) ==
    IF r.status = 200 /\ r.body # "bad_json"
    THEN [act |-> "return",
          value |-> CASE r.body \in {"envelope", "bare_list", "rpc_result"}
                            -> Value("list", n)
                      [] r.body = "envelope_null" -> Value("not_list", n)
                      [] OTHER -> EmptyList]
    ELSE [act |-> "next", value |-> NoValue]

\* a direct listing path after answer r, number n: a 200 whose body parses
\* ends the cascade with tools_data['tools'], with the list itself, or with
\* [] for any other body; everything else moves on
ListDirectStep(n, r) ==
    IF r.status = 200 /\ r.body # "bad_json"
    THEN [act |-> "return",
          value |-> CASE r.body = "envelope" -> Value("list", n)
                      [] r.body = "envelope_null" -> Value("not_list", n)
                      [] r.body = "bare_list" -> Value("list", n)
                      [] OTHER -> EmptyList]
    ELSE [act |-> "next", value |-> NoValue]

\* a fallback that reads the tools at the top level of the body
ListRpcValueTopLevel(r) ==
    IF r.status = 200 /\ r.body = "envelope" THEN Value("list", Len(ListPaths) + 1)
    ELSE EmptyList

\* the JSON-RPC fallback of _list_tools_aiohttp:
\* result.get('result', {}).get('tools', []) on a 200, [] otherwise
ListRpcValue(r) ==
    IF r.status = 200 /\ r.body = "rpc_result" THEN Value("list", Len(ListPaths) + 1)
    ELSE IF r.status = 200 /\ r.body = "rpc_null"
    THEN Value("not_list", Len(ListPaths) + 1)
    ELSE EmptyList

\* _list_tools_aiohttp after answer number n
ListStep(n, r) ==
    IF n <= Len(ListPaths) THEN ListDirectStep(n, r)
    ELSE [act |-> "return", value |-> ListRpcValue(r)]

\* a fallback that returns the whole body of the JSON-RPC answer
CallStepWholeBody(n, r) ==
    IF r.status = 200 /\ r.body \notin {"bad_json", "non_dict"}
    THEN [act |-> "return", value |-> Value("body", n)]
    ELSE IF n <= Len(CallPaths) /\ ~(r.status = 200 /\ r.body = "non_dict")
    THEN [act |-> "next", value |-> NoValue]
    ELSE IF n <= Len(CallPaths)
    THEN [act |-> "return", value |-> Value("body", n)]
    ELSE [act |-> "raise", value |-> NoValue]

\* _call_tool_aiohttp after answer number n: the first 200 whose body parses
\* is returned whole; the fallback returns result.get('result', result) and
\* raises ClientError when the POST or the parsing fails
CallStep(n, r) ==
    IF n <= Len(CallPaths)
    THEN IF r.status = 200 /\ r.body # "bad_json"
         THEN [act |-> "return", value |-> Value("body", n)]
         ELSE [act |-> "next", value |-> NoValue]
    ELSE IF r.status = 200 /\ r.body = "result_payload"
    THEN [act |-> "return", value |-> Value("result", n)]
    ELSE IF r.status = 200 /\ r.body = "error_payload"
    THEN [act |-> "return", value |-> Value("body", n)]
    ELSE [act |-> "raise", value |-> NoValue]

\* the start of initialize, list_tools or call_tool on server i, up to its
\* first request; out: the session (or the adapter client) is created or
\* creating it raises; adapter: what the adapter's tools do
ClientBegin(i, op, out, closeOk, adapter) ==
    LET srv == http_servers[i]
        delegated == srv.transport \in {"sse", "streamable_http"}
        Done(raised, value) == ClientOp(op, i, "done", <<>>, raised, value)
        Running == ClientOp(op, i, "running", <<>>, FALSE, NoValue)
    IN  /\ client.pc = "done"
        /\ IF op = "initialize"
           THEN IF out # "ok"
                THEN /\ http_servers' =
                          [http_servers EXCEPT
                              ![i] = HttpInitialize(srv, out, None, closeOk).srv]
                     /\ client' = Done(TRUE, NoValue)
                ELSE IF delegated
                THEN /\ http_servers' =
                          [http_servers EXCEPT
                              ![i] = HttpInitialize(srv, out, None, closeOk).srv]
                     /\ client' = Done(FALSE, NoValue)
                ELSE /\ http_servers' = [http_servers EXCEPT ![i].session = TRUE]
                     /\ client' = Running
           ELSE /\ UNCHANGED http_servers
                /\ client' =
                     IF ~srv.is_connected THEN Done(TRUE, NoValue)
                     ELSE IF srv.langchain_client
                     THEN IF op = "list_tools"
                          THEN Done(FALSE, IF adapter = "ok" THEN Value("list", 0)
                                           ELSE EmptyList)
                          ELSE Done(adapter # "ok",
                                    IF adapter = "ok" THEN Value("tool_value", 0)
                                    ELSE NoValue)
                     ELSE IF ~srv.session THEN Done(TRUE, NoValue)
                     ELSE Running
        /\ UNCHANGED <<mcp_servers, registry, approval_enabled, agent,
                       last_registered, last, fleet, tasks, gate, ledger>>

\* the next request of the operation in progress and the answer r to it
ClientAnswer(r) ==
    LET i == client.srv
        srv == http_servers[i]
        n == Len(client.wire) + 1
        wire == Append(client.wire, ClientRequest(client.op, srv, n, r))
        step == CASE client.op = "initialize" ->
                        [act |-> ProbeStep(n, r), value |-> NoValue]
                  [] client.op = "list_tools" -> ListStep(n, r)
                  [] OTHER -> CallStep(n, r)
    IN  /\ client.pc = "running"
        /\ client' =
             ClientOp(client.op, i, IF step.act = "next" THEN "running" ELSE "done",
                      wire, step.act = "raise", step.value)
        /\ http_servers' =
             IF client.op = "initialize" /\ step.act = "return"
             THEN [http_servers EXCEPT
                      ![i] = HttpInitialize(srv, "ok", ProbeCaptures(n, r), TRUE).srv]
             ELSE http_servers
        /\ UNCHANGED <<mcp_servers, registry, approval_enabled, agent,
                       last_registered, last, fleet, tasks, gate, ledger>>

-----------------------------------------------------------------------------
(* Connection lifecycle, await by await *)

\* most initialize() calls on one connection
MaxInits == 2
\* most calls sent to the subprocess connections together
MaxCalls == 2

\* what the operations on the fleet leave alone
rest == <<mcp_servers, http_servers, registry, approval_enabled, agent,
          last_registered, last, client, gate>>

\* a connection as its constructor leaves it: an empty exit stack, a free
\* cleanup lock, no session
Connection(name, kind) ==
    [name |-> name, kind |-> kind, stack |-> <<>>, session |-> FALSE,
     is_connected |-> FALSE, langchain_client |-> FALSE, lock |-> None, gen |-> 0]

\* is_initialized() of a connection of either family
IsInitialized(c) ==
    IF c.kind = "stdio" THEN McpIsInitialized(c) ELSE HttpIsInitialized(c)

\* the resources initialize() enters into the exit stack, in order
Slots(kind) ==
    CASE kind = "stdio" -> <<"transport", "session">>
      [] kind = "http" -> <<"session">>
      [] OTHER -> <<>>

\* the resource connection i enters as slot k of its g-th initialize()
Resource(i, g, slot) == <<i, g, slot>>

\* AsyncExitStack.aclose leaving every callback on the stack
ExitStackKeep(stack) == stack

\* AsyncExitStack.aclose takes the callback entered last off the stack before
\* it awaits it
ExitStackPop(stack) == SubSeq(stack, 1, Len(stack) - 1)

\* cleanup_all_servers walking the connections in registration order
CleanupOrderForward(n) == [k \in 1..n |-> k]

\* cleanup_all_servers walks reversed(self.servers)
CleanupOrder(n) == [k \in 1..n |-> n + 1 - k]

\* coroutine t enters operation op on connection i
Enter(t, op, i, pc, after) ==
    [tasks EXCEPT ![t] = [op |-> op, srv |-> i, pc |-> pc, err |-> FALSE,
                          trail |-> IF op \in {"cleanup_all", "initialize_all"}
                                    THEN <<i>> ELSE <<>>,
                          after |-> after, failed |-> {}, visits |-> <<>>]]

\* a network studio whose loop ends at the first initialize() that fails
ProceedStopsAtFailure(t, fl, ok) ==
    LET tk == tasks[t]
        k == Len(tk.trail)
        n == Len(fl)
        failed == IF ok THEN tk.failed ELSE tk.failed \cup {tk.srv}
        first == CleanupOrder(n)[1]
        Ended == [tk EXCEPT !.pc = "done", !.failed = failed,
                            !.after = "returned"]
    IN  IF tk.op = "initialize"
        THEN [fleet |-> fl, task |-> Idle]
        ELSE IF ~ok /\ fl[tk.srv].kind = "stdio"
        THEN [fleet |-> fl,
              task |-> [tk EXCEPT !.srv = first, !.pc = "lock", !.err = FALSE,
                                  !.after = "walk", !.visits = <<first>>,
                                  !.failed = failed]]
        ELSE IF ok /\ k < n
        THEN [fleet |-> [fl EXCEPT ![k + 1].gen = @ + 1],
              task |-> [tk EXCEPT !.srv = k + 1, !.pc = "enter1", !.err = FALSE,
                                  !.after = "return", !.trail = Append(@, k + 1),
                                  !.failed = failed]]
        ELSE [fleet |-> fl, task |-> Ended]

\* initialize() of the connection coroutine t is on has returned to its
\* caller, fl being the fleet it leaves: a caller of initialize() is done;
\* MCPStudio.initialize_all_servers goes on with the next connection, or on
\* a failure calls cleanup_all_servers before it re-raises;
\* HttpMCPStudio.initialize_all_servers logs a failure and goes on
Proceed(t, fl, ok) ==
    LET tk == tasks[t]
        k == Len(tk.trail)
        n == Len(fl)
        failed == IF ok THEN tk.failed ELSE tk.failed \cup {tk.srv}
        first == CleanupOrder(n)[1]
        Ended == [tk EXCEPT !.pc = "done", !.failed = failed,
                            !.after = "returned"]
    IN  IF tk.op = "initialize"
        THEN [fleet |-> fl, task |-> Idle]
        ELSE IF ~ok /\ fl[tk.srv].kind = "stdio"
        THEN [fleet |-> fl,
              task |-> [tk EXCEPT !.srv = first, !.pc = "lock", !.err = FALSE,
                                  !.after = "walk", !.visits = <<first>>,
                                  !.failed = failed]]
        ELSE IF k < n
        THEN [fleet |-> [fl EXCEPT ![k + 1].gen = @ + 1],
              task |-> [tk EXCEPT !.srv = k + 1, !.pc = "enter1", !.err = FALSE,
                                  !.after = "return", !.trail = Append(@, k + 1),
                                  !.failed = failed]]
        ELSE [fleet |-> fl, task |-> Ended]

\* initialize() is called on connection i and suspends entering its first
\* resource
BeginInitialize(t, i) ==
    /\ tasks[t].pc = "done"
    /\ fleet[i].gen < MaxInits
    /\ fleet[i].stack = <<>>
    /\ \A u \in Tasks : ~(tasks[u].op = "initialize" /\ tasks[u].srv = i
                            /\ tasks[u].pc # "done")
    /\ fleet' = [fleet EXCEPT ![i].gen = @ + 1]
    /\ tasks' = Enter(t, "initialize", i, "enter1", "return")
    /\ UNCHANGED <<rest, ledger>>

\* one await of initialize() returns: a resource is entered into the exit
\* stack, the handshake or the probes end, or the await raises and the
\* handler calls cleanup() before it re-raises
InitializeStep(t, ok) ==
    LET i == tasks[t].srv
        c == fleet[i]
        pc == tasks[t].pc
        push(slot) == Append(c.stack, Resource(i, c.gen, slot))
        Acquire(slot) == [ledger EXCEPT !.acquired = @ \cup {Resource(i, c.gen, slot)}]
        Returns(fl) ==
            /\ fleet' = Proceed(t, fl, TRUE).fleet
            /\ tasks' = [tasks EXCEPT ![t] = Proceed(t, fl, TRUE).task]
            /\ ledger' = [ledger EXCEPT !.ready = @ \cup {i}]
    IN  /\ tasks[t].op \in {"initialize", "initialize_all"}
        /\ pc \in {"enter1", "enter2", "handshake", "probe"}
        /\ pc = "probe" => ok
        /\ IF ~ok
           THEN /\ tasks' = [tasks EXCEPT ![t].pc = "lock", ![t].after = "raise"]
                /\ UNCHANGED <<fleet, ledger>>
           ELSE CASE pc = "enter1" /\ c.kind = "stdio" ->
                        /\ fleet' = [fleet EXCEPT ![i].stack = push("transport")]
                        /\ ledger' = Acquire("transport")
                        /\ tasks' = [tasks EXCEPT ![t].pc = "enter2"]
                  [] pc = "enter1" /\ c.kind = "sse" ->
                        Returns([fleet EXCEPT ![i].langchain_client = TRUE,
                                              ![i].is_connected = TRUE])
                  [] pc = "enter1" /\ c.kind = "http" ->
                        /\ fleet' = [fleet EXCEPT ![i].stack = push("session"),
                                                  ![i].session = TRUE]
                        /\ ledger' = Acquire("session")
                        /\ tasks' = [tasks EXCEPT ![t].pc = "probe"]
                  [] pc = "enter2" ->
                        /\ fleet' = [fleet EXCEPT ![i].stack = push("session")]
                        /\ ledger' = Acquire("session")
                        /\ tasks' = [tasks EXCEPT ![t].pc = "handshake"]
                  [] pc = "handshake" ->
                        Returns([fleet EXCEPT ![i].session = TRUE])
                  [] OTHER ->
                        Returns([fleet EXCEPT ![i].is_connected = TRUE])
        /\ UNCHANGED rest

\* initialize_all_servers() is called on a fleet that holds no resources
\* and calls initialize() on the first connection
BeginInitializeAll(t) ==
    /\ tasks[t].pc = "done"
    /\ fleet # <<>>
    /\ \A i \in 1..Len(fleet) : fleet[i].gen < MaxInits /\ fleet[i].stack = <<>>
    /\ \A u \in Tasks : tasks[u].op \notin {"initialize", "initialize_all"}
    /\ fleet' = [fleet EXCEPT ![1].gen = @ + 1]
    /\ tasks' = Enter(t, "initialize_all", 1, "enter1", "return")
    /\ UNCHANGED <<rest, ledger>>

\* cleanup() is called on connection i and comes to its lock
BeginCleanup(t, i) ==
    /\ tasks[t].pc = "done"
    /\ tasks' = Enter(t, "cleanup", i, "lock", "return")
    /\ UNCHANGED <<rest, fleet, ledger>>

\* cleanup_all_servers() is called and calls cleanup() on the first
\* connection of its walk
BeginCleanupAll(t) ==
    /\ tasks[t].pc = "done"
    /\ fleet # <<>>
    /\ tasks' = Enter(t, "cleanup_all", CleanupOrder(Len(fleet))[1], "lock", "return")
    /\ UNCHANGED <<rest, fleet, ledger>>

\* cleanup() of connection c returns to coroutine t: the fields are reset
\* unless aclose raised, the lock is released, and the caller goes on:
\* initialize() re-raises, a walk of cleanup_all_servers() calls cleanup()
\* on its next connection or returns
CleanupReturns(t, c, err) ==
    LET tk == tasks[t]
        i == tk.srv
        done == [c EXCEPT !.lock = None,
                          !.session = IF err THEN @ ELSE FALSE,
                          !.langchain_client = IF err THEN @ ELSE FALSE,
                          !.is_connected = IF err \/ c.kind = "stdio" THEN @ ELSE FALSE]
        fl == [fleet EXCEPT ![i] = done]
        walk == CleanupOrder(Len(fleet))
        handler == tk.op \in {"initialize", "initialize_all"} /\ tk.after = "raise"
        seen == IF tk.op = "cleanup_all" THEN tk.trail ELSE tk.visits
        k == Len(seen)
        more == ~handler /\ tk.op \in {"cleanup_all", "initialize_all"}
                    /\ k < Len(fleet)
    IN  /\ fleet' = IF handler THEN Proceed(t, fl, FALSE).fleet ELSE fl
        /\ tasks' =
             IF handler THEN [tasks EXCEPT ![t] = Proceed(t, fl, FALSE).task]
             ELSE IF more /\ tk.op = "cleanup_all"
             THEN [tasks EXCEPT ![t].srv = walk[k + 1], ![t].pc = "lock",
                                ![t].err = FALSE,
                                ![t].trail = Append(@, walk[k + 1])]
             ELSE IF more
             THEN [tasks EXCEPT ![t].srv = walk[k + 1], ![t].pc = "lock",
                                ![t].err = FALSE,
                                ![t].visits = Append(@, walk[k + 1])]
             ELSE IF tk.op = "initialize_all"
             THEN [tasks EXCEPT ![t].pc = "done", ![t].after = "raised"]
             ELSE [tasks EXCEPT ![t] = Idle]
        /\ ledger' =
             [ledger EXCEPT
                 !.alls = IF tk.op = "cleanup_all" /\ ~more /\ @ < 2
                          THEN @ + 1 ELSE @,
                 !.ready = @ \ {i},
                 !.broken = IF handler THEN @ \cup {i} ELSE @]

\* async with self._cleanup_lock: the coroutine goes on when the lock is
\* free; a network connection without a session skips aclose and returns
\* without another await
LockStep(t) ==
    LET i == tasks[t].srv
        c == fleet[i]
    IN  /\ tasks[t].pc = "lock"
        /\ c.lock = None
        /\ IF c.kind # "stdio" /\ ~c.session
           THEN CleanupReturns(t, c, FALSE)
           ELSE /\ fleet' = [fleet EXCEPT ![i].lock = t]
                /\ tasks' = [tasks EXCEPT ![t].pc = "aclose"]
                /\ UNCHANGED ledger
        /\ UNCHANGED rest

\* exit_stack.aclose(): the callback on top of the stack is taken off and
\* awaited; it releases its resource, and it may raise
AcloseStep(t, ok) ==
    LET i == tasks[t].srv
        c == fleet[i]
        r == c.stack[Len(c.stack)]
    IN  /\ tasks[t].pc = "aclose"
        /\ c.stack # <<>>
        /\ fleet' = [fleet EXCEPT ![i].stack = ExitStackPop(c.stack)]
        /\ ledger' = [ledger EXCEPT
                         !.released = @ \cup {r},
                         !.again = IF r \in ledger.released THEN @ \cup {r} ELSE @,
                         !.failed = IF ok THEN @ ELSE @ \cup {i}]
        /\ tasks' = [tasks EXCEPT ![t].err = @ \/ ~ok]
        /\ UNCHANGED rest

\* exit_stack.aclose() finds the stack empty: it returns, or re-raises what
\* a callback raised, and cleanup() returns
FinishStep(t) ==
    LET c == fleet[tasks[t].srv]
    IN  /\ tasks[t].pc = "aclose"
        /\ c.stack = <<>>
        /\ CleanupReturns(t, c, tasks[t].err)
        /\ UNCHANGED rest

\* requests written to connection i, and responses read from it
Written(i, what) ==
    Cardinality({k \in 1..Len(ledger.wire) :
                    ledger.wire[k][1] = i /\ ledger.wire[k][3] = what})

\* execute_tool_call awaits the tool of subprocess connection i: the
\* session writes the request and suspends until the response arrives
BeginCall(t, i) ==
    /\ tasks[t].pc = "done"
    /\ fleet[i].kind = "stdio"
    /\ fleet[i].session
    /\ Cardinality({k \in 1..Len(ledger.wire) : ledger.wire[k][3] = "request"})
            < MaxCalls
    /\ tasks' = Enter(t, "call", i, "await", "return")
    /\ ledger' = [ledger EXCEPT !.wire = Append(@, <<i, t, "request">>)]
    /\ UNCHANGED <<rest, fleet>>

\* the response to the request of coroutine t arrives and its call returns
ReceiveStep(t) ==
    /\ tasks[t].op = "call"
    /\ tasks[t].pc = "await"
    /\ tasks' = [tasks EXCEPT ![t] = Idle]
    /\ ledger' = [ledger EXCEPT !.wire = Append(@, <<tasks[t].srv, t, "response">>)]
    /\ UNCHANGED <<rest, fleet>>

-----------------------------------------------------------------------------
(* Start-up *)

\* what a start-up was given and whether it ran to its end
StartOutcome(mcp_outs, http_outs, customs, completed) ==
    [op |-> "initialize_all_async", mcp_outs |-> mcp_outs, http_outs |-> http_outs,
     customs |-> customs, completed |-> completed]

\* the body of GlobalToolsManager.initialize_all_async once the studios
\* hold the servers ms and hs0: initialize_mcp_servers, which raises when the
\* subprocess studio does (the network studio is then left as it was), then
\* initialize_tools; an exception ends the start-up and is logged
StartUp(ms, hs0, outs, closeOk, houts, hclose, mls, hls, customs) ==
    LET m == McpInitializeFrom(ms, 1, outs, closeOk)
        hs == HttpInitializeFrom(hs0, 1, houts, [i \in 1..Len(hs0) |-> None], hclose)
        ready == McpInitializedServers(m.servers)
        per == [k \in 1..Len(ready) |-> LoadToolsFromServer(ready[k], mls[ready[k]])]
        regs == [k \in 1..Len(ready) |-> McpRegs(m.servers[ready[k]], per[k])]
        hready == HttpInitializedServers(hs)
        hper == [k \in 1..Len(hready) |->
                    LoadHttpToolsFromServer(hs[hready[k]], hready[k], hls[hready[k]])]
        hregs == [k \in 1..Len(hready) |-> HttpRegs(hs[hready[k]], hls[hready[k]])]
        written == Flatten(regs) \o Flatten(hregs) \o LocalRegs(customs, "custom")
    IN  /\ Len(Flatten(per)) + Len(Flatten(hper)) + Len(custom_tools) + Len(customs)
              + Len(see_tools) <= MaxTools
        /\ mcp_servers' = m.servers
        /\ IF m.raised
           THEN /\ UNCHANGED <<http_servers, registry, last_registered>>
                /\ last' = StartOutcome(outs, houts, customs, FALSE)
           ELSE /\ http_servers' = hs
                /\ mcp_tools' = Flatten(per)
                /\ http_tools' = Flatten(hper)
                /\ custom_tools' = custom_tools \o customs
                /\ tool_info' = StoreInfo(tool_info, written)
                /\ last_registered' = NoteRegistered(last_registered, written)
                /\ last' = StartOutcome(outs, houts, customs, TRUE)
                /\ UNCHANGED see_tools
        /\ UNCHANGED <<aux, approval_enabled, agent>>

\* GlobalToolsManager.initialize_all_async on studios that hold the servers
\* of the configuration already
initialize_all_async(outs, closeOk, houts, hclose, mls, hls, customs) ==
    StartUp(mcp_servers, http_servers, outs, closeOk, houts, hclose, mls, hls, customs)

\* MCPStudio.load_servers_from_config and HttpMCPStudio.load_servers_from_config
\* of the start-up: every entry of the configuration is appended to the
\* studio of its transport
LoadedMcp(servers, config) ==
    servers \o [i \in 1..Len(config) |-> MCPServer(config[i])]

LoadedHttp(servers, config) ==
    servers \o [i \in 1..Len(config) |-> HttpMCPServer(config[i][1], config[i][2])]

\* GlobalToolsManager.initialize_all_async with the loading of the
\* configuration it starts with; the network studio loads its entries after
\* the subprocess studio was initialized
initialize_all_async_loading(mcfg, hcfg, outs, closeOk, houts, hclose, mls, hls, customs) ==
    /\ Len(mcp_servers) + Len(mcfg) <= MaxServers
    /\ Len(http_servers) + Len(hcfg) <= MaxServers
    /\ StartUp(LoadedMcp(mcp_servers, mcfg), LoadedHttp(http_servers, hcfg),
               outs, closeOk, houts, hclose, mls, hls, customs)

-----------------------------------------------------------------------------
(* Specification *)

\* the servers of the configuration: names of the stdio entries, and names
\* and transports of the network entries
McpConfig == <<"s1">>
HttpConfig == << <<"h1", "http">> >>

\* most tool calls the agent makes for one message
MaxAgentCalls == 1

\* the state after construction and load_servers_from_config
Init ==
    /\ mcp_servers = [i \in 1..Len(McpConfig) |-> MCPServer(McpConfig[i])]
    /\ http_servers = [i \in 1..Len(HttpConfig) |->
                          HttpMCPServer(HttpConfig[i][1], HttpConfig[i][2])]
    /\ mcp_tools = <<>>
    /\ http_tools = <<>>
    /\ custom_tools = <<>>
    /\ see_tools = <<>>
    /\ tool_info = <<>>
    /\ approval_enabled = TRUE
    /\ agent = NoAgent
    /\ last_registered = <<>>
    /\ last = NoOutcome
    /\ client = NoClientOp
    /\ fleet = <<>>
    /\ tasks = NoTasks
    /\ gate = NoGate
    /\ ledger = EmptyLedger

\* the descriptions the network servers list: one with a name the local
\* tools use too, and one without a name
HttpListed == {"y", NoName}

\* the listings the HTTP servers can give: a plain-http listing may hold a
\* description without a name; a server that is not asked is given one
\* listing only
HttpListingInputs ==
    {ls \in [1..Len(http_servers) -> Listings(HttpListed)] :
        \A i \in 1..Len(http_servers) :
            /\ http_servers[i].transport \in {"sse", "streamable_http"}
                => \A k \in 1..Len(ls[i].names) : ls[i].names[k] \in Names
            /\ ~HttpIsInitialized(http_servers[i]) => ls[i].raised}

\* the listings the subprocess servers can give
McpListingInputs ==
    {ls \in [1..Len(mcp_servers) -> Listings(Names)] :
        \A i \in 1..Len(mcp_servers) :
            ~McpIsInitialized(mcp_servers[i]) => ls[i].raised}

\* how the closes of the subprocess servers end; a close that is not
\* attempted, or whose outcome leaves the same fields, is given one outcome
\* only
McpCloses(attempted) ==
    {c \in [1..Len(mcp_servers) -> BOOLEAN] :
        \A i \in 1..Len(mcp_servers) :
            (~attempted \/ ~mcp_servers[i].session) => c[i]}

\* how the closes of the network servers end
HttpCloses(attempted) ==
    {c \in [1..Len(http_servers) -> BOOLEAN] :
        \A i \in 1..Len(http_servers) :
            (~attempted[i] \/ ~http_servers[i].session) => c[i]}

\* the tool objects callers pass to add_custom_tools and to add_see_tools: an
\* object with run only, one that cannot be invoked, and a plain callable
CustomCatalogue == {Tool("x", "custom", "runner", 0), Tool("y", "custom", "inert", 0)}
SeeCatalogue == {Tool("x", "see", "function", 0)}

\* the tool calls an agent can make: positions of invocable tools
AgentCalls ==
    IF ~agent.created THEN {<<>>}
    ELSE SeqsUpTo({i \in 1..Len(agent.tools) : IsExecutable(agent.tools[i])},
                  MaxAgentCalls)

LoadMcpStep == \E ls \in McpListingInputs : load_mcp_tools(ls)

LoadHttpStep == \E ls \in HttpListingInputs : load_http_tools(ls)

AddCustomStep == \E ts \in SeqsUpTo(CustomCatalogue, MaxBatch) : add_custom_tools(ts)

AddSeeStep == \E ts \in SeqsUpTo(SeeCatalogue, MaxBatch) : add_see_tools(ts)

SetApprovalStep == \E enabled \in BOOLEAN : set_approval_mode(enabled)

\* what the parties a tool call reaches can do: the tool itself returns or
\* raises, the server's answers end the cascade in some way, the adapter's
\* tool returns or raises; a party the call to tool t cannot reach is given
\* one behaviour only
ToolOuts(t) ==
    IF t.kind \in {"langchain", "runner", "function"} THEN {"ok", "raise"} ELSE {"ok"}
NetOuts(t) ==
    IF t.kind = "http" /\ HttpIsInitialized(http_servers[t.server])
         /\ ~http_servers[t.server].langchain_client
    THEN CascadeOutcomes
    ELSE {[raised |-> TRUE, value |-> None, requests |-> NumCallPaths + 1]}
AdapterOuts(t) ==
    IF t.kind = "http" /\ http_servers[t.server].langchain_client
    THEN {"ok", "raise"}
    ELSE {"ok"}

\* a tool no call reaches
AbsentTool == Tool(None, "custom", "inert", 0)

\* the answers _get_user_approval can give to a call that reaches it
Decisions(tool_name, t) ==
    IF t # AbsentTool /\ ApprovalRequired /\ tool_name \in DOMAIN tool_info
    THEN BOOLEAN
    ELSE {TRUE}

ExecuteStep ==
    \E tool_name \in CallNames :
        LET i == find_tool_by_name(AllTools, tool_name)
            t == IF i = 0 THEN AbsentTool ELSE AllTools[i]
        IN  \E decision \in Decisions(tool_name, t) :
                LET r == IF Disapproved(decision) THEN AbsentTool ELSE t
                IN  \E out \in ToolOuts(r), net \in NetOuts(r),
                       adapter \in AdapterOuts(r) :
                        Execute(tool_name, decision, out, net, adapter)

McpInitializeStep ==
    \E outs \in [1..Len(mcp_servers) -> {"ok", "fail"}] :
        \E closeOk \in McpCloses(\E i \in 1..Len(mcp_servers) : outs[i] = "fail") :
            McpInitializeAll(outs, closeOk)

McpCleanupStep == \E closeOk \in McpCloses(TRUE) : McpCleanupAll(closeOk)

\* the probes answer without an mcp-session-id header
HttpInitializeStep ==
    \E outs \in [1..Len(http_servers) -> {"ok", "fail"}],
       sids \in [1..Len(http_servers) -> {None}] :
        \E closeOk \in HttpCloses([i \in 1..Len(http_servers) |-> outs[i] = "fail"]) :
            HttpInitializeAll(outs, sids, closeOk)

HttpCleanupStep ==
    \E closeOk \in HttpCloses([i \in 1..Len(http_servers) |-> TRUE]) :
        HttpCleanupAll(closeOk)

CreateAgentStep == create_agent

ProcessMessageStep ==
    \E calls \in AgentCalls :
        LET t == IF calls = <<>> THEN AbsentTool ELSE agent.tools[calls[Len(calls)]]
        IN  \E out \in {"ok", "raise"}, net \in NetOuts(t), adapter \in AdapterOuts(t) :
                process_message(calls, out, net, adapter)

\* the manager and the studios as they are before any start-up
Fresh ==
    /\ AllTools = <<>>
    /\ tool_info = <<>>
    /\ \A i \in 1..Len(mcp_servers) : ~McpIsInitialized(mcp_servers[i])
    /\ \A i \in 1..Len(http_servers) : ~HttpIsInitialized(http_servers[i])

\* initialize_global_tools runs the start-up once, on the fresh manager;
\* get_all_custom_tools() gives the custom tools
StartupStep ==
    /\ Fresh
    /\ \E outs \in [1..Len(mcp_servers) -> {"ok", "fail"}],
          houts \in [1..Len(http_servers) -> {"ok", "fail"}],
          mls \in [1..Len(mcp_servers) -> Listings(Names)],
          hls \in [1..Len(http_servers) -> Listings(HttpListed)],
          customs \in SeqsUpTo(CustomCatalogue, MaxBatch) :
            \E closeOk \in McpCloses(\E i \in 1..Len(mcp_servers) : outs[i] = "fail"),
               hclose \in HttpCloses([i \in 1..Len(http_servers) |-> houts[i] = "fail"]) :
                initialize_all_async(outs, closeOk, houts, hclose, mls, hls, customs)

\* the registry and the dispatcher over the two studios
Next ==
    \/ LoadMcpStep
    \/ LoadHttpStep
    \/ AddCustomStep
    \/ AddSeeStep
    \/ SetApprovalStep
    \/ ExecuteStep
    \/ McpInitializeStep
    \/ McpCleanupStep
    \/ HttpInitializeStep
    \/ HttpCleanupStep

Spec == Init /\ [][Next]_vars

\* the tools of the servers are loaded and called while the studios are
\* brought up and torn down
NextCalls ==
    \/ LoadMcpStep
    \/ LoadHttpStep
    \/ SetApprovalStep
    \/ ExecuteStep
    \/ McpInitializeStep
    \/ McpCleanupStep
    \/ HttpInitializeStep
    \/ HttpCleanupStep

SpecCalls == Init /\ [][NextCalls]_vars

SummaryStep == get_tools_summary

\* tools are loaded, reloaded and added while the studios are brought up and
\* torn down, and the summary is taken
NextSummary ==
    \/ LoadMcpStep
    \/ LoadHttpStep
    \/ AddCustomStep
    \/ AddSeeStep
    \/ McpInitializeStep
    \/ McpCleanupStep
    \/ HttpInitializeStep
    \/ HttpCleanupStep
    \/ SummaryStep

SpecSummary == Init /\ [][NextSummary]_vars

\* the chat front end: tools are registered, the agent is built and run
NextChat ==
    \/ McpInitializeStep
    \/ LoadMcpStep
    \/ AddCustomStep
    \/ SetApprovalStep
    \/ CreateAgentStep
    \/ ProcessMessageStep

SpecChat == Init /\ [][NextChat]_vars

\* the servers of the network studio when the client is followed request by
\* request: a plain-http and a delegated one
NetConfig == << <<"h1", "http">>, <<"e1", "sse">> >>

InitNet ==
    /\ mcp_servers = <<>>
    /\ http_servers = [i \in 1..Len(NetConfig) |->
                          HttpMCPServer(NetConfig[i][1], NetConfig[i][2])]
    /\ mcp_tools = <<>>
    /\ http_tools = <<>>
    /\ custom_tools = <<>>
    /\ see_tools = <<>>
    /\ tool_info = <<>>
    /\ approval_enabled = TRUE
    /\ agent = NoAgent
    /\ last_registered = <<>>
    /\ last = NoOutcome
    /\ client = NoClientOp
    /\ fleet = <<>>
    /\ tasks = NoTasks
    /\ gate = NoGate
    /\ ledger = EmptyLedger

ClientOps == {"initialize", "list_tools", "call_tool"}

\* an input the operation does not come to is given one value only
ClientBeginStep ==
    \E i \in 1..Len(http_servers), op \in ClientOps :
        \E out \in IF op = "initialize" THEN {"ok", "fail"} ELSE {"ok"},
           adapter \in IF op # "initialize" /\ HttpIsInitialized(http_servers[i])
                           /\ http_servers[i].langchain_client
                       THEN {"ok", "raise"} ELSE {"ok"} :
            \E closeOk \in IF out = "fail" /\ http_servers[i].session
                            THEN BOOLEAN ELSE {TRUE} :
                ClientBegin(i, op, out, closeOk, adapter)

\* the answers a request of the operation in progress can get
ClientAnswers ==
    CASE client.op = "initialize" -> Answers({"any"})
      [] client.op = "list_tools" -> Answers(ListBodies)
      [] OTHER -> Answers(Bodies)

ClientAnswerStep == \E r \in ClientAnswers : ClientAnswer(r)

\* cleanup_all_servers between two operations of the client
ClientCleanupStep == client.pc = "done" /\ HttpCleanupStep

NextNet ==
    \/ ClientBeginStep
    \/ ClientAnswerStep
    \/ ClientCleanupStep

SpecNet == InitNet /\ [][NextNet]_vars

\* the start-up of the global manager, and the calls served after it
NextStartup ==
    \/ StartupStep
    \/ SetApprovalStep
    \/ ExecuteStep

SpecStartup == Init /\ [][NextStartup]_vars

\* a studio of two connections of one family, none initialized
FleetOf(kind) ==
    IF kind = "stdio"
    THEN <<Connection("s1", "stdio"), Connection("s2", "stdio")>>
    ELSE <<Connection("h1", "http"), Connection("e1", "sse")>>

InitFleet ==
    /\ mcp_servers = <<>>
    /\ http_servers = <<>>
    /\ mcp_tools = <<>>
    /\ http_tools = <<>>
    /\ custom_tools = <<>>
    /\ see_tools = <<>>
    /\ tool_info = <<>>
    /\ approval_enabled = TRUE
    /\ agent = NoAgent
    /\ last_registered = <<>>
    /\ last = NoOutcome
    /\ client = NoClientOp
    /\ fleet \in {FleetOf("stdio"), FleetOf("http")}
    /\ tasks = NoTasks
    /\ gate = NoGate
    /\ ledger = EmptyLedger

BeginInitializeStep == \E t \in Tasks, i \in 1..Len(fleet) : BeginInitialize(t, i)
InitializeStepStep == \E t \in Tasks, ok \in BOOLEAN : InitializeStep(t, ok)
BeginCleanupStep == \E t \in Tasks, i \in 1..Len(fleet) : BeginCleanup(t, i)
BeginCleanupAllStep == \E t \in Tasks : BeginCleanupAll(t)
LockStepStep == \E t \in Tasks : LockStep(t)
AcloseStepStep == \E t \in Tasks, ok \in BOOLEAN : AcloseStep(t, ok)
FinishStepStep == \E t \in Tasks : FinishStep(t)
BeginCallStep == \E t \in Tasks, i \in 1..Len(fleet) : BeginCall(t, i)
ReceiveStepStep == \E t \in Tasks : ReceiveStep(t)

NextCleanup ==
    \/ BeginInitializeStep
    \/ InitializeStepStep
    \/ BeginCleanupStep
    \/ BeginCleanupAllStep
    \/ LockStepStep
    \/ AcloseStepStep
    \/ FinishStepStep

\* one connection of either family and two coroutines
InitRace ==
    /\ mcp_servers = <<>>
    /\ http_servers = <<>>
    /\ mcp_tools = <<>>
    /\ http_tools = <<>>
    /\ custom_tools = <<>>
    /\ see_tools = <<>>
    /\ tool_info = <<>>
    /\ approval_enabled = TRUE
    /\ agent = NoAgent
    /\ last_registered = <<>>
    /\ last = NoOutcome
    /\ client = NoClientOp
    /\ fleet \in {<<Connection("s1", "stdio")>>, <<Connection("h1", "http")>>}
    /\ tasks = NoTasks
    /\ gate = NoGate
    /\ ledger = EmptyLedger

SpecCleanup == InitRace /\ [][NextCleanup]_vars

\* a studio of two connections and one coroutine
InitWalk ==
    /\ mcp_servers = <<>>
    /\ http_servers = <<>>
    /\ mcp_tools = <<>>
    /\ http_tools = <<>>
    /\ custom_tools = <<>>
    /\ see_tools = <<>>
    /\ tool_info = <<>>
    /\ approval_enabled = TRUE
    /\ agent = NoAgent
    /\ last_registered = <<>>
    /\ last = NoOutcome
    /\ client = NoClientOp
    /\ fleet \in {FleetOf("stdio"), FleetOf("http")}
    /\ tasks = OneTask
    /\ gate = NoGate
    /\ ledger = EmptyLedger

SpecWalk == InitWalk /\ [][NextCleanup]_vars

BeginInitializeAllStep == \E t \in Tasks : BeginInitializeAll(t)

\* a studio and its caller: the fleet is brought up and torn down as a
\* whole, and single connections are cleaned up
NextStudio ==
    \/ BeginInitializeAllStep
    \/ InitializeStepStep
    \/ BeginCleanupStep
    \/ BeginCleanupAllStep
    \/ LockStepStep
    \/ AcloseStepStep
    \/ FinishStepStep

SpecStudio == InitWalk /\ [][NextStudio]_vars

NextSerial ==
    \/ BeginInitializeStep
    \/ InitializeStepStep
    \/ LockStepStep
    \/ AcloseStepStep
    \/ FinishStepStep
    \/ BeginCallStep
    \/ ReceiveStepStep

SpecSerial == InitFleet /\ [][NextSerial]_vars

\* two subprocess servers and two network servers whose tools are loaded
LoadMcpConfig == <<"s1", "s2">>

InitLoad ==
    /\ mcp_servers = [i \in 1..Len(LoadMcpConfig) |-> MCPServer(LoadMcpConfig[i])]
    /\ http_servers = [i \in 1..Len(NetConfig) |->
                          HttpMCPServer(NetConfig[i][1], NetConfig[i][2])]
    /\ mcp_tools = <<>>
    /\ http_tools = <<>>
    /\ custom_tools = <<>>
    /\ see_tools = <<>>
    /\ tool_info = <<>>
    /\ approval_enabled = TRUE
    /\ agent = NoAgent
    /\ last_registered = <<>>
    /\ last = NoOutcome
    /\ client = NoClientOp
    /\ fleet = <<>>
    /\ tasks = NoTasks
    /\ gate = NoGate
    /\ ledger = EmptyLedger

\* the subprocess servers list the tool name the network servers list too
LoadNames == {"y"}

LoadMcpInputs ==
    {ls \in [1..Len(mcp_servers) -> Listings(LoadNames)] :
        \A i \in 1..Len(mcp_servers) :
            ~McpIsInitialized(mcp_servers[i]) => ls[i].raised}

LoadMcpNamedStep == \E ls \in LoadMcpInputs : load_mcp_tools(ls)

\* the studios are brought up and torn down, and the tools are loaded
NextLoad ==
    \/ McpInitializeStep
    \/ McpCleanupStep
    \/ HttpInitializeStep
    \/ HttpCleanupStep
    \/ LoadMcpNamedStep
    \/ LoadHttpStep

SpecLoad == InitLoad /\ [][NextLoad]_vars

\* two studios with no server yet
InitConfig ==
    /\ mcp_servers = <<>>
    /\ http_servers = <<>>
    /\ mcp_tools = <<>>
    /\ http_tools = <<>>
    /\ custom_tools = <<>>
    /\ see_tools = <<>>
    /\ tool_info = <<>>
    /\ approval_enabled = TRUE
    /\ agent = NoAgent
    /\ last_registered = <<>>
    /\ last = NoOutcome
    /\ client = NoClientOp
    /\ fleet = <<>>
    /\ tasks = NoTasks
    /\ gate = NoGate
    /\ ledger = EmptyLedger

AddServerStep == \E config \in StdioDescriptors : add_server(config)

HttpAddServerStep == \E config \in HttpDescriptors : http_add_server(config)

\* a close is attempted, and can fail, only on a server that holds a session
McpInitializeOneStep ==
    \E i \in 1..Len(mcp_servers), out \in {"ok", "fail"}, closeOk \in BOOLEAN :
        /\ (out = "ok" \/ ~mcp_servers[i].session) => closeOk
        /\ McpInitializeOne(i, out, closeOk)

HttpInitializeOneStep ==
    \E i \in 1..Len(http_servers), out \in {"ok", "fail"}, closeOk \in BOOLEAN :
        /\ (out = "ok" \/ ~http_servers[i].session) => closeOk
        /\ HttpInitializeOne(i, out, closeOk)

\* servers are added to the studios and initialized one by one
NextConfig ==
    \/ AddServerStep
    \/ HttpAddServerStep
    \/ McpInitializeOneStep
    \/ HttpInitializeOneStep

SpecConfig == InitConfig /\ [][NextConfig]_vars

\* a start-up of the global manager as initialize_global_tools runs it, the
\* loading of the configuration included; a server that is not brought up
\* lists nothing
GlobalStartupStep ==
    LET ms == LoadedMcp(mcp_servers, McpConfig)
        hs == LoadedHttp(http_servers, HttpConfig)
        Silent == [raised |-> TRUE, names |-> <<>>]
    IN  /\ Len(ms) <= MaxServers
        /\ Len(hs) <= MaxServers
        /\ \E outs \in [1..Len(ms) -> {"ok", "fail"}],
              houts \in [1..Len(hs) -> {"ok", "fail"}],
              customs \in SeqsUpTo(CustomCatalogue, MaxBatch) :
            \E mls \in {f \in [1..Len(ms) -> Listings(Names)] :
                            \A i \in 1..Len(ms) : outs[i] = "fail" => f[i] = Silent},
               hls \in {f \in [1..Len(hs) -> Listings(HttpListed)] :
                            \A i \in 1..Len(hs) : houts[i] = "fail" => f[i] = Silent},
               closeOk \in {c \in [1..Len(ms) -> BOOLEAN] :
                            \A i \in 1..Len(ms) :
                                ((\A j \in 1..Len(ms) : outs[j] = "ok") \/ ~ms[i].session)
                                    => c[i]},
               hclose \in {c \in [1..Len(hs) -> BOOLEAN] :
                            \A i \in 1..Len(hs) : (houts[i] = "ok" \/ ~hs[i].session) => c[i]} :
                initialize_all_async_loading(McpConfig, HttpConfig, outs, closeOk,
                                             houts, hclose, mls, hls, customs)

LoadConfigStep ==
    LET held == Len(mcp_servers) + Len(http_servers)
        before == IF last.op = "load_servers_from_config" THEN Len(last.name) ELSE 0
        room == IF held > before THEN MaxEntries - held ELSE MaxEntries - before
    IN  \E n \in 0..room : \E config \in [1..n -> ConfigEntries] :
            load_servers_from_config(config)

\* configurations loaded into the two studios
NextConfigLoad ==
    \/ LoadConfigStep

SpecConfigLoad == InitConfig /\ [][NextConfigLoad]_vars

GateBeginStep == get_user_approval_begin

GateReadStep == \E event \in ConsoleEvents : get_user_approval_read(event)

\* the console approval gate consulted again and again
NextGate ==
    \/ GateBeginStep
    \/ GateReadStep

SpecGate == Init /\ [][NextGate]_vars

\* the global manager started again and again from empty studios
NextGlobal ==
    \/ GlobalStartupStep
    \/ SummaryStep

SpecGlobal == InitConfig /\ [][NextGlobal]_vars

-----------------------------------------------------------------------------
(* Properties of the registry and the dispatcher *)

\* the source a tool object was loaded from
SourceOf(t) ==
    CASE t.cat = "mcp" -> <<"mcp_server", mcp_servers[t.server].name>>
      [] t.cat = "http" -> <<"http_server", http_servers[t.server].name>>
      [] OTHER -> <<t.cat>>

\* some tool list holds a tool of that name
Registered(n) == \E i \in 1..Len(AllTools) : AllTools[i].name = n

\* the positions in get_all_tools() of the tools of that name
Holders(n) == {i \in 1..Len(AllTools) : AllTools[i].name = n}

IsExecute == last.op = "execute_tool_call"

\* C1: after any sequence of registrations every descriptor is stored under
\* its own name, and the descriptor of a name carries the source of the
\* latest registration of that name (last write wins)
C1_LastWriteWins ==
    /\ DOMAIN tool_info = DOMAIN last_registered
    /\ \A n \in DOMAIN tool_info :
        /\ tool_info[n].name = n
        /\ tool_info[n].source = last_registered[n]

\* C1 witness: x was registered from the subprocess server and from the
\* custom tools, and its descriptor carries one of the two
C1_Witness ==
    /\ \E i \in 1..Len(mcp_tools) : mcp_tools[i].name = "x"
    /\ \E i \in 1..Len(custom_tools) : custom_tools[i].name = "x"
    /\ "x" \in DOMAIN tool_info
    /\ tool_info["x"].source = <<"custom">>

\* C2: the tool execute invokes for a name comes from the source the
\* descriptor of that name gives
C2_DescriptorMatchesDispatch ==
    (IsExecute /\ last.invoked # <<>> /\ last.name \in DOMAIN tool_info)
        => SourceOf(last.invoked[1]) = tool_info[last.name].source

\* C3: when approval is enabled and the gate rejects, execute returns a
\* failure that says disapproved by user, and neither the tool nor the
\* transport is invoked
C3_RejectionBlocksCall ==
    (IsExecute /\ last.approval /\ last.gate_calls = 1 /\ ~last.decision)
        => /\ last.result = ToolResult(last.name, FALSE, None,
                                       "Tool execution disapproved by user")
           /\ last.invoked = <<>>
           /\ ~last.transport.called

\* C3 witness: the gate rejected a call to an executable network tool
C3_Witness ==
    /\ IsExecute /\ last.approval /\ last.gate_calls = 1 /\ ~last.decision
    /\ \E i \in Holders(last.name) :
        AllTools[i].kind = "http" /\ http_servers[AllTools[i].server].is_connected

\* C4: while approval is enabled no tool is invoked without an approval
\* decision for that invocation, whether execute_tool_call or the agent of
\* process_message invokes it
C4_NoInvocationWithoutApproval ==
    (last.approval /\ last.invoked # <<>>)
        => (last.gate_calls >= Len(last.invoked) /\ last.decision)

\* C5 as stated: with approval disabled, execute on a registered tool does
\* not consult the gate and invokes the tool exactly once
C5_Original ==
    (IsExecute /\ ~last.approval /\ Registered(last.name))
        => (last.gate_calls = 0 /\ Len(last.invoked) = 1)

\* C5 amended: with approval disabled, execute on a registered tool does not
\* consult the gate; it invokes the first tool of that name exactly once when
\* that tool is executable (has invoke or run, or is callable), making one
\* transport call for a network tool, and invokes nothing and returns a
\* "not executable" failure when it is not
C5_Amended ==
    (IsExecute /\ ~last.approval /\ Registered(last.name))
        => LET t == AllTools[CHOOSE i \in Holders(last.name) :
                                \A j \in Holders(last.name) : i <= j]
           IN  /\ last.gate_calls = 0
               /\ t.kind \in {"langchain", "http", "runner", "function"}
                    => /\ last.invoked = <<t>>
                       /\ last.transport.called <=> t.kind = "http"
               /\ t.kind = "inert"
                    => /\ last.invoked = <<>>
                       /\ ~last.transport.called
                       /\ last.result = ToolResult(last.name, FALSE, None,
                                                   "Tool is not executable")

\* C5 witness: with approval disabled a network tool was invoked
C5_Witness ==
    /\ IsExecute /\ ~last.approval
    /\ Len(last.invoked) = 1 /\ last.invoked[1].kind = "http"
    /\ last.transport.called

\* C6: execute on a name no tool list holds returns the "not found"
\* failure, raises nothing, consults neither the gate nor a connection,
\* invokes nothing and leaves the registry as it was
C6_UnknownNameNotFound ==
    [][(last'.op = "execute_tool_call"
            /\ \A i \in 1..Len(AllTools) : AllTools[i].name # last'.name)
        => /\ last'.result = ToolResult(last'.name, FALSE, None, "Tool not found")
           /\ ~last'.raised
           /\ last'.gate_calls = 0
           /\ last'.invoked = <<>>
           /\ ~last'.transport.called
           /\ UNCHANGED <<registry, mcp_servers, http_servers>>]_vars

\* C6 witness: a name that is not registered was asked for while other
\* tools were registered and approval was enabled
C6_Witness ==
    /\ IsExecute /\ ~Registered(last.name) /\ AllTools # <<>>
    /\ approval_enabled
    /\ last.result.error = "Tool not found"

\* C7: execute_tool_call raises nothing to its caller, and whenever the
\* underlying tool or the transport raised, the result is a failure that
\* carries an error message
C7_NeverRaises ==
    IsExecute
        => /\ ~last.raised
           /\ (last.tool_raised \/ (last.transport.called /\ last.transport.raised))
                => (~last.result.success /\ last.result.error # None)

\* C8: when the call paths of a plain-http connection and the JSON-RPC
\* fallback all fail, or the connection is not Ready, execute returns
\* success = false
C8_TransportFailureIsFailure ==
    (IsExecute /\ last.transport.called /\ last.transport.raised)
        => ~last.result.success

\* C9: a JSON-RPC answer with HTTP 200 that carries error and no result
\* makes execute return success = false
C9_ErrorPayloadIsFailure ==
    (IsExecute /\ last.transport.called /\ ~last.transport.raised
        /\ last.transport.requests = NumCallPaths + 1
        /\ last.transport.value = "body_error")
        => ~last.result.success

\* C10: in every ToolResult of execute_tool_call, success has no error, and
\* failure has no result and a non-empty error message
C10_ResultShape ==
    IsExecute
        => /\ last.result.tool_name = last.name
           /\ last.result.success => last.result.error = None
           /\ ~last.result.success
                => (last.result.result = None /\ last.result.error \notin {None, ""})

\* C10 witness: a tool that raised gave a failure result
C10_Witness ==
    IsExecute /\ last.tool_raised /\ ~last.result.success

-----------------------------------------------------------------------------
(* Properties of the start-up *)

IsStartup == last.op = "initialize_all_async"

\* C11: after a start-up in which a subprocess connection failed to
\* initialize, every network connection whose own initialization succeeds is
\* initialized and the custom tools are registered and found by name
C11_FailureIsIsolated ==
    (IsStartup /\ \E i \in 1..Len(mcp_servers) : last.mcp_outs[i] = "fail")
        => /\ \A i \in 1..Len(http_servers) :
                last.http_outs[i] = "ok" => HttpIsInitialized(http_servers[i])
           /\ \A k \in 1..Len(last.customs) :
                find_tool_by_name(AllTools, last.customs[k].name) # 0

-----------------------------------------------------------------------------
(* Properties of the network RPC client *)

\* an operation of the plain-http client has ended after sending requests
ClientDone(op) == client.op = op /\ client.pc = "done" /\ client.wire # <<>>

\* the requests of the operation went to the paths in their order, and the
\* one after them to the base URL with the JSON-RPC method rpc
InOrder(method, paths, rpc) ==
    \A k \in 1..Len(client.wire) :
        IF k <= Len(paths)
        THEN /\ client.wire[k].method = method
             /\ client.wire[k].path = paths[k]
             /\ client.wire[k].rpc = None
        ELSE /\ k = Len(paths) + 1
             /\ client.wire[k].method = "POST"
             /\ client.wire[k].path = BaseUrl
             /\ client.wire[k].rpc = rpc

C15_Original ==
    ClientDone("call_tool")
        => /\ InOrder("POST", CallPaths, "tools/call")
           /\ \A k \in 1..Len(client.wire) :
                (k <= Len(CallPaths) /\ client.wire[k].status = 200)
                    => /\ k = Len(client.wire)
                       /\ ~client.raised
                       /\ client.value = Value("body", k)
           /\ Len(client.wire) = Len(CallPaths) + 1
                => LET r == client.wire[Len(client.wire)]
                   IN  /\ r.status # 200 => client.raised
                       /\ (r.status = 200 /\ r.body = "result_payload")
                            => (~client.raised
                                /\ client.value = Value("result", Len(client.wire)))

\* C15 amended: call_tool POSTs to the three call paths in order; the first
\* 200 whose body parses is the last request and its body is returned; a 200
\* whose body is no JSON is passed over like a 404, another status or a
\* request error; after three such answers one JSON-RPC tools/call POST goes
\* to the base URL, whose result is returned on a 200 and which raises
\* otherwise
C15_Amended ==
    ClientDone("call_tool")
        => /\ InOrder("POST", CallPaths, "tools/call")
           /\ \A k \in 1..Len(client.wire) :
                k <= Len(CallPaths)
                    => IF client.wire[k].status = 200 /\ client.wire[k].body # "bad_json"
                       THEN /\ k = Len(client.wire)
                            /\ ~client.raised
                            /\ client.value = Value("body", k)
                       ELSE k < Len(client.wire)
           /\ Len(client.wire) = Len(CallPaths) + 1
                => LET r == client.wire[Len(client.wire)]
                   IN  /\ r.status # 200 => client.raised
                       /\ (r.status = 200 /\ r.body = "result_payload")
                            => (~client.raised
                                /\ client.value = Value("result", Len(client.wire)))

\* C15 witness: the call paths gave 404, 500 and a request error, and the
\* result of the JSON-RPC answer was returned
C15_Witness ==
    /\ ClientDone("call_tool") /\ Len(client.wire) = 4
    /\ client.wire[1].status = 404 /\ client.wire[2].status = 500
    /\ client.wire[3].status = 0
    /\ client.wire[4].body = "result_payload" /\ client.value = Value("result", 4)

\* C16: a request sent after a response that carried an mcp-session-id
\* header carries that value in its own mcp-session-id header
C16_SessionIdEchoed ==
    client.op \in ClientOps
        => \A j, k \in 1..Len(client.wire) :
              (j < k /\ client.wire[j].sid # None)
                  => client.wire[k].header \in SessionIds

\* C17: initialize of a plain-http connection probes /, /health, /status in
\* that order and then the base URL, stops at the first answer with a status
\* below 500, and ends with the connection initialized whatever the answers
\* were
C17_ProbesEndReady ==
    [][(client.op = "initialize" /\ client.pc = "running" /\ client'.pc = "done")
        => /\ ~client'.raised
           /\ HttpIsInitialized(http_servers'[client.srv])
           /\ \A k \in 1..Len(client'.wire) :
                /\ client'.wire[k].method = "GET"
                /\ client'.wire[k].path =
                       IF k <= Len(ProbePaths) THEN ProbePaths[k] ELSE BaseUrl
                /\ k < Len(client'.wire)
                     => (client'.wire[k].status = 0 \/ client'.wire[k].status >= 500)
           /\ Len(client'.wire) <= Len(ProbePaths)
                => LET r == client'.wire[Len(client'.wire)]
                   IN  r.status # 0 /\ r.status < 500
           /\ Len(client'.wire) <= Len(ProbePaths) + 1]_vars

\* C17 witness: every probe failed or answered 500, the GET of the base URL
\* raised, and the connection is initialized
C17_Witness ==
    /\ client.op = "initialize" /\ client.pc = "done" /\ Len(client.wire) = 4
    /\ client.wire[1].status = 500 /\ client.wire[2].status = 0
    /\ client.wire[3].status = 500 /\ client.wire[4].status = 0
    /\ HttpIsInitialized(http_servers[client.srv])

-----------------------------------------------------------------------------
(* Properties of the connection lifecycle *)

\* coroutine t is inside cleanup() of connection i
InCleanup(t, i) == tasks[t].srv = i /\ tasks[t].pc \in {"lock", "aclose"}

\* C18: whatever cleanup() calls run on a connection, one after another or
\* interleaved, no owned resource is released twice, a resource is released
\* exactly when it has left the exit stack, the exit stack is empty when a
\* cleanup() returns, at most the holder of the lock is inside aclose, and
\* no cleanup() call raises: only the handler of a failed initialize()
\* re-raises after its cleanup()
C18_ReleasedExactlyOnce ==
    [][/\ ledger'.again = {}
       /\ \A r \in ledger'.acquired :
            r \in ledger'.released
                <=> \A k \in 1..Len(fleet'[r[1]].stack) : fleet'[r[1]].stack[k] # r
       /\ \A i \in 1..Len(fleet') :
            \A t \in Tasks :
                (tasks'[t].srv = i /\ tasks'[t].pc = "aclose") => fleet'[i].lock = t
       /\ \A t \in Tasks :
            /\ tasks'[t].after = "raise" => tasks'[t].op = "initialize"
            /\ \A i \in 1..Len(fleet) :
                 (InCleanup(t, i) /\ ~(InCleanup(t, i))')
                    => fleet'[i].stack = <<>>]_vars

\* C18 witness: the failure handler of initialize() holds the lock of a
\* connection and has released one of its two resources, while
\* cleanup_all_servers waits for the same lock
C18_Witness ==
    \E t, u \in Tasks, i \in 1..Len(fleet) :
        /\ tasks[t].op = "initialize" /\ tasks[t].srv = i /\ tasks[t].pc = "aclose"
        /\ fleet[i].lock = t /\ Len(fleet[i].stack) = 1
        /\ \E r \in ledger.released : r[1] = i
        /\ tasks[u].op = "cleanup_all" /\ tasks[u].srv = i /\ tasks[u].pc = "lock"

\* C19: cleanup_all_servers calls cleanup() on the last registered
\* connection first and on the first registered one last, returns only
\* after it has called it on every connection, whether or not an exit
\* callback raised, never raises, and however often it runs no resource is
\* released a second time
C19_ReverseWalk ==
    [][\A t \in Tasks :
        /\ tasks'[t].op = "cleanup_all"
            => /\ \A k \in 1..Len(tasks'[t].trail) :
                    tasks'[t].trail[k] = Len(fleet) + 1 - k
               /\ tasks'[t].srv = tasks'[t].trail[Len(tasks'[t].trail)]
               /\ tasks'[t].after = "return"
        /\ (tasks[t].op = "cleanup_all" /\ tasks'[t].op # "cleanup_all")
            => Len(tasks[t].trail) = Len(fleet)
        /\ ledger'.alls >= 1 => ledger'.again = {}]_vars

\* C19 witness: cleanup_all_servers has returned twice, an exit callback of
\* the connection it visits first has raised, and the resources of the
\* connection it visits last were released all the same
C19_Witness ==
    /\ ledger.alls = 2
    /\ Len(fleet) \in ledger.failed
    /\ \E r \in ledger.released : r[1] = 1
    /\ \A t \in Tasks : tasks[t].op = "idle"

\* C20: at most one call is in flight on a subprocess connection: no
\* request is written to it while the response to an earlier request is
\* still awaited
C20_OneInFlight ==
    \A i \in 1..Len(fleet) : Written(i, "request") - Written(i, "response") <= 1

-----------------------------------------------------------------------------
(* Properties of the merged tool list and of the connections' states *)

\* C30: get_all_tools() holds at most one tool of each name
C30_OneToolPerName ==
    \A i, j \in 1..Len(AllTools) :
        AllTools[i].name = AllTools[j].name => i = j

\* C27: a tool call, whatever its transport does, and every step that
\* changes the registry or the approval mode (loading tools with the
\* listings it makes, setting the mode) leave every connection
\* as it was, its session token included; a step that changes a connection
\* is no tool call and leaves the registry and the approval mode alone
C27_CallsLeaveConnections ==
    [][/\ (last'.op = "execute_tool_call" \/ registry' # registry
             \/ approval_enabled' # approval_enabled)
            => UNCHANGED <<mcp_servers, http_servers>>
       /\ (mcp_servers' # mcp_servers \/ http_servers' # http_servers)
            => /\ last'.op = "none"
               /\ UNCHANGED <<registry, approval_enabled>>]_vars

\* C27 witness: a call to a tool of a ready plain-http connection sent a
\* request to every path and raised, and the connection is still ready
C27_Witness ==
    /\ IsExecute
    /\ last.transport.called /\ last.transport.raised
    /\ last.transport.requests = NumCallPaths + 1
    /\ last.invoked # <<>>
    /\ HttpIsInitialized(http_servers[last.invoked[1].server])

\* C24: a tool call that execute routes to a network connection that is not
\* initialized sends no request and ends as a failure: the connection
\* raises its 'not initialized' error and the result is flagged
\* unsuccessful
C24_NotReadyFailsFast ==
    (IsExecute /\ last.transport.called
        /\ ~HttpIsInitialized(http_servers[last.invoked[1].server]))
        => /\ last.transport.raised
           /\ last.transport.requests = 0
           /\ ~last.result.success

-----------------------------------------------------------------------------
(* Properties of the studios *)

\* coroutine t is in, or has just ended, initialize_all_servers of a studio
\* of that family
InBringUp(t, network) ==
    /\ tasks[t].op = "initialize_all"
    /\ (fleet[1].kind # "stdio") = network

C22_FailFastCleansFleet ==
    \A t \in Tasks :
        (InBringUp(t, FALSE) /\ tasks[t].pc = "done" /\ tasks[t].failed # {})
            => /\ tasks[t].after = "raised"
               /\ \A k \in 1..Len(tasks[t].trail) : tasks[t].trail[k] = k
               /\ tasks[t].failed = {tasks[t].trail[Len(tasks[t].trail)]}
               /\ Len(tasks[t].visits) = Len(fleet)
               /\ \A k \in 1..Len(tasks[t].visits) :
                    tasks[t].visits[k] = Len(fleet) + 1 - k
               /\ \A i \in 1..Len(fleet) : ~IsInitialized(fleet[i])

\* C25: a connection on which an initialize() has failed is never
\* initialized again
C25_FailedIsTerminal ==
    \A i \in 1..Len(fleet) : i \in ledger.broken => ~IsInitialized(fleet[i])

\* C26: when the handler of a failed initialize() has run its cleanup() and
\* re-raises, the exit stack of the connection is empty, every resource the
\* connection acquired has been released, and the connection does not
\* report itself initialized
C26_FailedInitializeReleases ==
    [][\A t \in Tasks :
        (tasks[t].after = "raise" /\ tasks'[t].after # "raise")
            => LET i == tasks[t].srv
               IN  /\ fleet'[i].stack = <<>>
                   /\ \A r \in ledger'.acquired : r[1] = i => r \in ledger'.released
                   /\ ~IsInitialized(fleet'[i])]_vars

\* C28: the connections that report themselves initialized are exactly those
\* whose latest initialize() succeeded and on which no cleanup() has
\* returned since
C28_InitializedAreReady ==
    \A i \in 1..Len(fleet) : IsInitialized(fleet[i]) <=> i \in ledger.ready


-----------------------------------------------------------------------------
(* Properties of the loading of tools *)

\* the tool_info key and the tool a server's listing entry td gives
McpLoaded(i, td) == [key |-> td, tool |-> Tool(td, "mcp", "langchain", i)]

HttpLoaded(i, td) ==
    IF http_servers[i].transport \in {"sse", "streamable_http"}
    THEN [key |-> td, tool |-> Tool(td, "http", "langchain", i)]
    ELSE [key |-> HttpInfoKey(td, http_servers[i].name),
          tool |-> Tool(HttpToolName(td), "http", "http", i)]

\* what a load must leave: loaded is the list it assigned, info the registry
\* after it, ready(i) whether server i was initialized, ls the listings,
\* Loaded(i, td) as above, source(i) the source string of server i.
\* The tools of server i in the list are those of its listing, in order,
\* when it was initialized and its listing did not fail, and none otherwise;
\* every listed entry has a descriptor whose source is a server that was
\* initialized and listed that entry, its own when no other server did
LoadedAsListed(loaded, info, n, ready(_), ls, Loaded(_, _), source(_)) ==
    LET listed(i) == ready(i) /\ ~ls[i].raised
        keys(i) == {Loaded(i, ls[i].names[k]).key : k \in 1..Len(ls[i].names)}
    IN  /\ \A i \in 1..n :
            SelectSeq(loaded, LAMBDA t : t.server = i)
                = IF listed(i)
                  THEN [k \in 1..Len(ls[i].names) |-> Loaded(i, ls[i].names[k]).tool]
                  ELSE <<>>
        /\ \A i \in 1..n :
            listed(i) =>
                \A key \in keys(i) :
                    /\ key \in DOMAIN info
                    /\ \E j \in 1..n :
                        /\ listed(j) /\ key \in keys(j)
                        /\ info[key].source = source(j)
                    /\ (\A j \in 1..n : (listed(j) /\ key \in keys(j)) => j = i)
                          => info[key].source = source(i)

\* C29: load_mcp_tools and load_http_tools leave in their list the tools of
\* the initialized servers whose listing did not fail, each registered with
\* the source of a server that listed it; a server whose listing fails, or
\* that is not initialized, contributes nothing and the others still do
C29_LoadsFromReady ==
    [][/\ UNCHANGED <<mcp_servers, http_servers, http_tools>> =>
          \A ls \in LoadMcpInputs :
            load_mcp_tools(ls)
                => LoadedAsListed(mcp_tools', tool_info', Len(mcp_servers),
                                  LAMBDA i : McpIsInitialized(mcp_servers[i]), ls,
                                  McpLoaded,
                                  LAMBDA i : <<"mcp_server", mcp_servers[i].name>>)
       /\ UNCHANGED <<mcp_servers, http_servers, mcp_tools>> =>
          \A ls \in HttpListingInputs :
            load_http_tools(ls)
                => LoadedAsListed(http_tools', tool_info', Len(http_servers),
                                  LAMBDA i : HttpIsInitialized(http_servers[i]), ls,
                                  HttpLoaded,
                                  LAMBDA i : <<"http_server", http_servers[i].name>>)]_vars

\* C29 witness: both subprocess servers are initialized and a load has left
\* a tool of the second server and none of the first, registered with the
\* second server as its source; the sse server alone is initialized and an
\* earlier load has left a tool of it
C29_Witness ==
    /\ \A i \in 1..Len(mcp_servers) : McpIsInitialized(mcp_servers[i])
    /\ Len(mcp_servers) = 2
    /\ mcp_tools = <<Tool("y", "mcp", "langchain", 2)>>
    /\ HttpInitializedServers(http_servers) = <<2>>
    /\ http_tools = <<Tool("y", "http", "langchain", 2)>>
    /\ tool_info["y"].source = <<"mcp_server", "s2">>


-----------------------------------------------------------------------------
(* Properties of the descriptors *)

\* a configuration dict that has the fields its transport kind requires
StdioComplete(config) == config.command \notin {"absent", None}
HttpComplete(config) == config.transport # "absent" /\ config.url # "absent"

\* C23: add_server of a descriptor that lacks a field its kind requires
\* raises and adds nothing, so that every server of a studio has a complete
\* descriptor and initialize() is never called on an incomplete one
C23_IncompleteNeverAdded ==
    /\ (last.op = "add_server" /\ ~StdioComplete(last.name)) => last.raised
    /\ (last.op = "http_add_server" /\ ~HttpComplete(last.name)) => last.raised
    /\ \A i \in 1..Len(mcp_servers) : StdioComplete(mcp_servers[i].config)
    /\ last.op = "initialize" => StdioComplete(last.name)

-----------------------------------------------------------------------------
(* Properties of the merged list, the summary and the approval gate *)

\* place of a tool's category in the order local, subprocess, network
MergeRank(tool) ==
    CASE tool.cat \in {"custom", "see"} -> 1
      [] tool.cat = "mcp" -> 2
      [] OTHER -> 3

\* C34: get_all_tools() lists the local tools first, then the tools of the
\* subprocess servers, then the tools of the network servers
C34_LocalSubprocessNetwork ==
    \A i, j \in 1..Len(AllTools) :
        i < j => MergeRank(AllTools[i]) <= MergeRank(AllTools[j])

\* get_tools_summary has just returned: no operation has run since
IsSummary == last.op = "get_tools_summary"

\* the tools of get_all_tools() have pairwise distinct names
DistinctNames ==
    \A i, j \in 1..Len(AllTools) : AllTools[i].name = AllTools[j].name => i = j

\* C31: get_tools_summary changes neither the registry nor a connection nor
\* the approval mode, and when the registered tools have pairwise distinct
\* names its total_tools is their number
C31_SummaryCountsTools ==
    [][last'.op = "get_tools_summary"
        => /\ UNCHANGED <<mcp_servers, http_servers, registry, approval_enabled,
                          agent>>
           /\ DistinctNames => last'.result.total_tools = Len(AllTools)]_vars

\* C36: the names that have a descriptor are the names of the tools held:
\* every name the summary reports is found by find_tool_by_name, and every
\* tool of get_all_tools() has a descriptor under its own name
C36_DescriptorsMatchTools ==
    /\ \A n \in DOMAIN tool_info : find_tool_by_name(AllTools, n) # 0
    /\ \A i \in 1..Len(AllTools) : AllTools[i].name \in DOMAIN tool_info
    /\ IsSummary => last.result.tool_names = DOMAIN tool_info

\* number of tools of a list that were loaded from the server of that name
ToolsOfServer(tools, servers, srvname) ==
    Cardinality({i \in 1..Len(tools) : servers[tools[i].server].name = srvname})

\* C38: in a summary total_tools is the sum of the four category totals,
\* and for every server the names under by_server are as many as the tools
\* of that server in its tool list
C38_SummaryConsistent ==
    IsSummary =>
        LET r == last.result
        IN  /\ r.total_tools = r.mcp_total + r.http_total + r.custom_total + r.see_total
            /\ \A i \in 1..Len(mcp_servers) :
                ToolsOfServer(mcp_tools, mcp_servers, mcp_servers[i].name)
                    = IF mcp_servers[i].name \in DOMAIN r.mcp_by_server
                      THEN Cardinality(r.mcp_by_server[mcp_servers[i].name]) ELSE 0
            /\ \A i \in 1..Len(http_servers) :
                ToolsOfServer(http_tools, http_servers, http_servers[i].name)
                    = IF http_servers[i].name \in DOMAIN r.http_by_server
                      THEN Cardinality(r.http_by_server[http_servers[i].name]) ELSE 0

\* C37: when cleanup() of a connection returns and releases its lock, the
\* connection does not report itself initialized, whether or not aclose()
\* raised; and when cleanup_all_servers() returns no connection of the
\* studio is initialized
C37_CleanedUpNotInitialized ==
    [][/\ \A i \in 1..Len(fleet) :
            (fleet[i].lock # None /\ fleet'[i].lock = None)
                => ~IsInitialized(fleet'[i])
       /\ ledger'.alls > ledger.alls
            => \A i \in 1..Len(fleet) : ~IsInitialized(fleet'[i])]_vars

-----------------------------------------------------------------------------
(* Properties of the global manager *)

\* the servers of a studio that carry the given name
ServersNamed(servers, name) == {i \in 1..Len(servers) : servers[i].name = name}

\* C35: the global manager is initialized once: however often it is started,
\* each studio holds one connection for each provider of the configuration and
\* each custom tool is registered once
C35_InitializedOnce ==
    /\ \A i \in 1..Len(McpConfig) :
          Cardinality(ServersNamed(mcp_servers, McpConfig[i])) <= 1
    /\ \A i \in 1..Len(HttpConfig) :
          Cardinality(ServersNamed(http_servers, HttpConfig[i][1])) <= 1
    /\ \A i, j \in 1..Len(custom_tools) : custom_tools[i] = custom_tools[j] => i = j

-----------------------------------------------------------------------------
(* Properties of the loading of a configuration *)

\* the keys of the entries of a configuration that satisfy P, in order
KeysOf(config, P(_)) ==
    LET taken == SelectSeq([i \in 1..Len(config) |-> i], LAMBDA i : P(config[i]))
    IN  [k \in 1..Len(taken) |-> ConfigKeys[taken[k]]]

ServerNames(servers) == [i \in 1..Len(servers) |-> servers[i].name]

\* an entry for the subprocess studio: its transport is stdio or omitted, and
\* it validates (a command, if given, is a string)
SubprocessEntry(entry) ==
    entry.transport \in {"absent", "stdio"} /\ entry.command # "not_a_string"

\* an entry for the network studio: its transport is written http, sse or
\* streamable_http, and it validates (it has a url)
NetworkEntryAsWritten(entry) ==
    entry.transport \in {"http", "sse", "streamable_http"} /\ entry.url # "absent"

\* the same with the transport read without regard to the case of its letters
NetworkEntry(entry) ==
    entry.transport \in {"http", "HTTP", "sse", "streamable_http"} /\ entry.url # "absent"

\* a load adds to the subprocess studio the entries that satisfy P and to the
\* network studio the entries that satisfy Q, in order and whatever the other
\* entries are, and no entry to both
LoadSplits(P(_), Q(_)) ==
    last'.op = "load_servers_from_config"
        => /\ ServerNames(mcp_servers') = ServerNames(mcp_servers) \o KeysOf(last'.name, P)
           /\ ServerNames(http_servers') = ServerNames(http_servers) \o KeysOf(last'.name, Q)
           /\ \A i \in 1..Len(last'.name) : ~(P(last'.name[i]) /\ Q(last'.name[i]))

\* C32 as stated: the subprocess studio takes exactly the entries whose
\* transport is stdio (or omitted), the network studio exactly those whose
\* transport is http, sse or streamable_http; an entry that fails validation
\* is skipped and the others are loaded; no entry is in both studios
C32_SplitByTransportAsWritten == [][LoadSplits(SubprocessEntry, NetworkEntryAsWritten)]_vars

\* C32, amended: the same, with the network studio reading the transport
\* without regard to case (HTTP is taken as http) while the subprocess studio
\* compares it with "stdio" exactly
C32_SplitByTransport == [][LoadSplits(SubprocessEntry, NetworkEntry)]_vars

\* an entry that fails validation is followed by an entry written HTTP: the
\* first is skipped by both studios, the second is in the network studio
C32_Witness ==
    /\ last.op = "load_servers_from_config"
    /\ Len(last.name) = 2
    /\ last.name[1] = [transport |-> "stdio", command |-> "not_a_string", url |-> "absent"]
    /\ last.name[2] = [transport |-> "HTTP", command |-> "cmd", url |-> "url"]
    /\ mcp_servers = <<>>
    /\ ServerNames(http_servers) = <<"k2">>

-----------------------------------------------------------------------------
(* Properties of the console approval gate *)

\* the inputs read before the last one
EarlierInputs == SubSeq(gate.inputs, 1, Len(gate.inputs) - 1)

LastInput == gate.inputs[Len(gate.inputs)]

\* every element of the sequence is outside the set
NoneIn(inputs, S) == \A i \in 1..Len(inputs) : inputs[i] \notin S

\* the gate decides on the inputs of Approve and of Reject and on no other
\* input: while it prompts it has read neither, and when it has returned the
\* last input is the first of either and the decision is the one of its set
GateDecidesOn(Approve, Reject) ==
    /\ gate.pc = "prompt" => NoneIn(gate.inputs, Approve \cup Reject)
    /\ gate.pc = "done"
          => /\ gate.inputs # <<>>
             /\ NoneIn(EarlierInputs, Approve \cup Reject)
             /\ LastInput \in Approve \cup Reject
             /\ gate.decision = "approve" <=> LastInput \in Approve
             /\ gate.decision = "reject" <=> LastInput \in Reject

\* C33 as stated: the gate returns approve only when the input is exactly
\* "1" and reject only when it is exactly "2"; any other input is followed by
\* a new prompt and never by a decision
C33_DecidesOnExactChoice == GateDecidesOn({"1"}, {"2"})

\* C33, amended: the gate returns approve only on a line that is "1" once
\* its surrounding white space is removed; it returns reject on a line that
\* is "2" in the same sense, on Ctrl-C and on a failed read; every other line
\* is followed by a new prompt
C33_DecidesOnStrippedChoice ==
    GateDecidesOn({"1", " 1 "}, {"2", "2 ", "<KeyboardInterrupt>", "<EOFError>"})

\* the gate prompted again after "yes" and approved on " 1 "
C33_Witness ==
    /\ gate.pc = "done"
    /\ gate.inputs = <<"yes", " 1 ">>
    /\ gate.decision = "approve"

====
